---- MODULE Spec2Model ----
(***************************************************************************)
(* OPC-UA connector of thingsboard-gateway                                 *)
(* (thingsboard_gateway/connectors/opcua/opcua_connector.py).              *)
(*                                                                         *)
(* The connector thread runs start_client on its own event loop: an outer  *)
(* connect loop, and inside it the acquisition loop that scans the         *)
(* address space for devices and polls their nodes.  The OPC-UA server is  *)
(* the environment: which device instances exist, which of them refuse a   *)
(* subscription, and how each protocol call ends.                          *)
(*                                                                         *)
(* Time is kept in ticks of half a second.  next_scan and next_poll hold   *)
(* the time left until the deadline (deadline - monotonic(), never below   *)
(* 0), which is all the code reads of them.                                *)
(***************************************************************************)
EXTENDS Integers, Sequences, FiniteSets, TLC

(* ------------------------------------------------------------------ *)
(* Bounds of the model and constants of the program                   *)
(* ------------------------------------------------------------------ *)

\* retry_with_backoff's defaults (max_retries=8, initial_delay=1, backoff_factor=2)
DefaultMaxRetries == 8
DefaultInitialDelay == 1
DefaultBackoffFactor == 2

\* pollPeriodInMillis = 1000 and scanPeriodInMillis = 2000 in the configuration,
\* after int(ms / 1000), in ticks
PollPeriod == 2
ScanPeriod == 4

\* asyncio.sleep(.5) of the finally clause and asyncio.sleep(5) after a timeout
CooldownTicks == 1
TimeoutSleepTicks == 10

\* close() gives the thread 5 seconds, looking every sleep(.1): in tenths
GraceTenths == 50

\* bounds of the inputs drawn for retry_with_backoff on its own
MaxN == 3
MaxD == 2
MaxF == 3

\* bound of the rpc_methods table drawn for server_side_rpc_handler on its own
MaxRpcTable == 2

\* bounds of the registry drawn for __poll_nodes on its own: devices, and bound
\* nodes of one device
MaxPollDevices == 3
MaxPollNodes == 2

Ticks(seconds) == 2 * seconds

Min(a, b) == IF a < b THEN a ELSE b
Max(a, b) == IF a > b THEN a ELSE b

(* ------------------------------------------------------------------ *)
(* The server's address space and the configured mapping              *)
(* ------------------------------------------------------------------ *)

\* the device instances the server may hold below Root.Objects: two nodes of
\* browse name Room, in namespaces 1 and 2 (1:Room, 2:Room), in browse order,
\* and the value of each instance's Id node
Instances == {1, 2}
InstanceOrder == <<1, 2>>
IdOf == [i \in Instances |-> IF i = 1 THEN "A" ELSE "B"]
Names == {"A", "B"}

\* config['mapping']: one template, whose pattern names the Room nodes and which
\* names each device by the Id read below a Room
Mapping ==
    << [deviceNodePattern |-> "Root\\.Objects\\.Room",
        deviceNameExpression |-> "${Root\\.Objects\\.Room\\.Id}",
        timeseries |-> <<"temperature">>] >>

\* the instances whose nodes may come to refuse a subscription
FaultyInstances == {2}

VARIABLES
    pc,                   \* position of the connector thread in run/start_client
    exc,                  \* the exception start_client handled last in this iteration
    stopped,              \* self.__stopped
    connected,            \* self.__connected
    session,              \* the client holds an open session on the server
    cancel_pending,       \* close() scheduled __disconnect and __cancel_all_tasks, not yet run
    retry,                \* the frame of retry_with_backoff
    next_scan,            \* self.__next_scan - monotonic(), 0 when due
    next_poll,            \* self.__next_poll - monotonic(), 0 when due
    device_nodes,         \* self.__device_nodes
    subscription,         \* self.__subscription
    data_to_send,         \* self.__data_to_send
    present,              \* instances in the server's address space
    faulty,               \* instances whose nodes refuse subscribe_data_change
    space_scanned,        \* scans run to their end since the server last changed (2: two or more)
    last_torn,            \* the names the last _create_new_devices called __reset_nodes for
    polled,               \* the read_attributes call of this iteration's poll cycle
    enable_subscriptions, \* self.__enable_subscriptions
    frame                 \* the call the gateway makes from its own thread: close(), an RPC,
                          \* an attribute update; or the function looked at on its own

vars == <<pc, exc, stopped, connected, session, cancel_pending, retry,
          next_scan, next_poll, device_nodes, subscription, data_to_send,
          present, faulty, space_scanned, last_torn, polled, enable_subscriptions, frame>>

conn_vars == <<pc, exc, stopped, connected, session, cancel_pending, retry>>
time_vars == <<next_scan, next_poll>>
dev_vars == <<device_nodes, subscription, last_torn, space_scanned>>
env_vars == <<present, faulty>>

(* ------------------------------------------------------------------ *)
(* retry_with_backoff                                                  *)
(* ------------------------------------------------------------------ *)

\* the frame on entry: delay = initial_delay, no attempt made
RetryEnter(n, d, f) ==
    [max_retries |-> n, initial_delay |-> d, backoff_factor |-> f,
     attempt |-> 0, delay |-> d, calls |-> 0, sleeps |-> <<>>,
     returned |-> FALSE, result |-> "None"]

\* the delay after a failed attempt: delay *= backoff_factor
NextDelayAdd(r) == r.delay + r.backoff_factor
NextDelay(r) == r.delay * r.backoff_factor

\* the range(max_retries) loop has another iteration
MoreAttempts(r) == r.attempt < r.max_retries

\* one iteration of the loop: func succeeds (ok) and its result is returned, or it
\* raises, the delay is slept and then multiplied; past the last iteration the
\* function returns None
RetryStep(r, ok) ==
    IF ~MoreAttempts(r)
    THEN [r EXCEPT !.returned = TRUE, !.result = "None"]
    ELSE IF ok
         THEN [r EXCEPT !.calls = @ + 1, !.returned = TRUE, !.result = "value"]
         ELSE [r EXCEPT !.calls = @ + 1, !.attempt = @ + 1,
                        !.sleeps = Append(@, r.delay), !.delay = NextDelay(r)]

IdleRetry == RetryEnter(DefaultMaxRetries, DefaultInitialDelay, DefaultBackoffFactor)

(* ------------------------------------------------------------------ *)
(* The clock                                                           *)
(* ------------------------------------------------------------------ *)

\* t ticks pass with the deadlines scan and poll ticks away: both come t nearer
ElapseFrom(scan, poll, t) ==
    /\ next_scan' = Max(scan - t, 0)
    /\ next_poll' = Max(poll - t, 0)

Elapse(t) == ElapseFrom(next_scan, next_poll, t)

(* ------------------------------------------------------------------ *)
(* Address-space resolution                                            *)
(* ------------------------------------------------------------------ *)

InOrder(S) == SelectSeq(InstanceOrder, LAMBDA i : i \in S)

\* find_nodes(device['deviceNodePattern']): the paths of the nodes the pattern
\* names; every node below Root.Objects whose browse name is Room
FindNodes(pattern, space) ==
    IF pattern = "Root\\.Objects\\.Room" THEN InOrder(space) ELSE <<>>

\* _get_device_info_by_pattern(deviceNameExpression): one name per node the
\* placeholder resolves to, or the expression itself when it has no placeholder
GetDeviceInfoByPattern(expression, space) ==
    IF expression = "${Root\\.Objects\\.Room\\.Id}"
    THEN [k \in 1..Len(InOrder(space)) |-> IdOf[InOrder(space)[k]]]
    ELSE <<expression>>

(* ------------------------------------------------------------------ *)
(* Devices and node bindings                                           *)
(* ------------------------------------------------------------------ *)

\* a node of device.values as Device.load_values leaves it: no 'valid', no
\* 'sub_on', no 'qualified_path' key yet
NewBinding(key) ==
    [key |-> key, valid |-> "unset", sub_on |-> FALSE, subscription |-> "None",
     qualified_path |-> FALSE]

\* Device(path=node, name=device_name, config=device_config, ...)
NewDevice(node, device_name, t) ==
    [name |-> device_name, path |-> node, tmpl |-> t,
     values |-> [k \in 1..Len(Mapping[t].timeseries) |-> NewBinding(Mapping[t].timeseries[k])],
     nodes |-> <<>>]

\* __reset_node: valid = False; a subscribed node is unsubscribed, its handle
\* cleared and sub_on lowered
ResetNodeKeepingHandle(node) == [node EXCEPT !.valid = "False"]
ResetNode(node) ==
    [node EXCEPT !.valid = "False",
                 !.subscription = IF node.sub_on THEN "None" ELSE @,
                 !.sub_on = FALSE]

\* __reset_nodes(device_name): every node of every device of that name
ResetNodes(devs, device_name) ==
    [i \in 1..Len(devs) |->
        IF devs[i].name = device_name
        THEN [devs[i] EXCEPT !.values = [k \in 1..Len(@) |-> ResetNode(@[k])]]
        ELSE devs[i]]

DeviceNamesOf(devs) == {devs[i].name : i \in 1..Len(devs)}

(* ------------------------------------------------------------------ *)
(* _create_new_devices                                                 *)
(* ------------------------------------------------------------------ *)

\* the inner "for node in nodes" loop: one Device per instance path
DevicesForName(nodes, device_name, t) ==
    [k \in 1..Len(nodes) |-> NewDevice(nodes[k], device_name, t)]

\* "if device_name not in existing_devices"
IsNewNameAlways(device_name, existing_devices, devs) == TRUE
IsNewName(device_name, existing_devices, devs) == device_name \notin existing_devices

\* the "for device_name in device_names" loop of one template
RECURSIVE AddForNames(_, _, _, _, _)
AddForNames(devs, existing_devices, t, device_names, nodes) ==
    IF device_names = <<>> THEN devs
    ELSE AddForNames(
            IF IsNewName(Head(device_names), existing_devices, devs)
            THEN devs \o DevicesForName(nodes, Head(device_names), t)
            ELSE devs,
            existing_devices, t, Tail(device_names), nodes)

\* the "for device in mapping" loop over the first upto templates
RECURSIVE AddForTemplates(_, _, _, _, _)
AddForTemplates(devs, existing_devices, t, upto, space) ==
    IF t > upto THEN devs
    ELSE AddForTemplates(
            AddForNames(devs, existing_devices, t,
                        GetDeviceInfoByPattern(Mapping[t].deviceNameExpression, space),
                        FindNodes(Mapping[t].deviceNodePattern, space)),
            existing_devices, t + 1, upto, space)

\* scanned_devices after the whole mapping was walked
ScannedDevices(space) ==
    UNION { {GetDeviceInfoByPattern(Mapping[t].deviceNameExpression, space)[k] :
                k \in 1..Len(GetDeviceInfoByPattern(Mapping[t].deviceNameExpression, space))} :
            t \in 1..Len(Mapping) }

\* the names the final loop tears down: known before the scan, not scanned
AbsentNames(existing_devices, space) == existing_devices \ ScannedDevices(space)

RECURSIVE ResetAbsent(_, _)
ResetAbsent(devs, absent) ==
    IF absent = {} THEN devs
    ELSE LET n == CHOOSE x \in absent : TRUE
         IN ResetAbsent(ResetNodes(devs, n), absent \ {n})

\* _create_new_devices run to its end
CreateNewDevices(devs, space) ==
    ResetAbsent(AddForTemplates(devs, DeviceNamesOf(devs), 1, Len(Mapping), space),
                AbsentNames(DeviceNamesOf(devs), space))

(* ------------------------------------------------------------------ *)
(* _load_devices_nodes                                                 *)
(* ------------------------------------------------------------------ *)

\* the node below the device's path exists on the server: resolution and
\* get_child succeed; otherwise they find nothing or raise BadNoMatch
Resolves(path, space) == path \in space

\* the body of the loop for one node of device.values.  env holds what the body
\* reads besides the node: the address space, the faulty instances,
\* enable_subscriptions and the stop flag.  found: the node was appended to
\* device.nodes; sub: self.__subscription afterwards
LoadNode(path, node, sub, env) ==
    IF ~Resolves(path, env.space)
    THEN [node |-> IF node.valid # "False" THEN ResetNode(node) ELSE node,
          found |-> FALSE, sub |-> sub]
    ELSE LET q == [node EXCEPT !.qualified_path = TRUE]
         IN IF q.valid = "unset" \/ (q.valid = "True" /\ ~env.subs)
            THEN IF env.subs /\ ~q.sub_on /\ ~env.stopped
                 THEN IF path \in env.faulty
                      THEN \* subscribe_data_change raises a status error
                           [node |-> ResetNode(q), found |-> TRUE, sub |-> "Subscription"]
                      ELSE [node |-> [q EXCEPT !.subscription = "handle", !.sub_on = TRUE,
                                               !.valid = "True"],
                            found |-> TRUE, sub |-> "Subscription"]
                 ELSE [node |-> [q EXCEPT !.valid = "True"], found |-> TRUE, sub |-> sub]
            ELSE [node |-> q, found |-> TRUE, sub |-> sub]

\* the loop over the first limit nodes of one device; acc = [values, nodes, sub]
RECURSIVE LoadValues(_, _, _, _, _)
LoadValues(path, k, limit, acc, env) ==
    IF k > limit THEN acc
    ELSE LET r == LoadNode(path, acc.values[k], acc.sub, env)
         IN LoadValues(path, k + 1, limit,
                [values |-> [acc.values EXCEPT ![k] = r.node],
                 nodes |-> IF r.found
                           THEN Append(acc.nodes, [node |-> <<path, r.node.key>>,
                                                   key |-> r.node.key])
                           ELSE acc.nodes,
                 sub |-> r.sub],
                env)

\* the loop over the devices from the i-th on.  budget < 0: the loop runs to its
\* end; budget >= 0: a ConnectionError is raised on the node after budget nodes
RECURSIVE LoadDevicesUntilError(_, _, _, _, _)
LoadDevicesUntilError(devs, i, budget, sub, env) ==
    IF i > Len(devs) THEN [devs |-> devs, sub |-> sub]
    ELSE LET d == devs[i]
             nb == Len(d.values)
             lim == IF budget < 0 THEN nb ELSE Min(budget, nb)
             r == LoadValues(d.path, 1, lim,
                             [values |-> d.values, nodes |-> <<>>, sub |-> sub], env)
             devs2 == [devs EXCEPT ![i] = [d EXCEPT !.values = r.values, !.nodes = r.nodes]]
         IN IF (budget >= 0 /\ budget < nb)
               \/ \E k \in 1..Len(r.values) : r.values[k].valid = "False"
            THEN [devs |-> devs2, sub |-> r.sub]
            ELSE LoadDevicesUntilError(devs2, i + 1,
                                       IF budget < 0 THEN budget ELSE budget - nb, r.sub, env)
RECURSIVE LoadDevices(_, _, _, _, _)
LoadDevices(devs, i, budget, sub, env) ==
    IF i > Len(devs) THEN [devs |-> devs, sub |-> sub]
    ELSE LET d == devs[i]
             nb == Len(d.values)
             lim == IF budget < 0 THEN nb ELSE Min(budget, nb)
             r == LoadValues(d.path, 1, lim,
                             [values |-> d.values, nodes |-> <<>>, sub |-> sub], env)
             devs2 == [devs EXCEPT ![i] = [d EXCEPT !.values = r.values, !.nodes = r.nodes]]
         IN IF budget >= 0 /\ budget < nb
            THEN [devs |-> devs2, sub |-> r.sub]
            ELSE LoadDevices(devs2, i + 1, IF budget < 0 THEN budget ELSE budget - nb,
                             r.sub, env)

RECURSIVE CountValues(_, _)
CountValues(devs, i) ==
    IF i > Len(devs) THEN 0 ELSE Len(devs[i].values) + CountValues(devs, i + 1)

(* ------------------------------------------------------------------ *)
(* __poll_nodes                                                        *)
(* ------------------------------------------------------------------ *)

\* all_nodes: the 'node' of every entry of every device.nodes, in order
RECURSIVE AllNodes(_, _)
AllNodes(devs, i) ==
    IF i > Len(devs) THEN <<>>
    ELSE [k \in 1..Len(devs[i].nodes) |-> devs[i].nodes[k].node] \o AllNodes(devs, i + 1)

\* read_attributes: an order-preserving batch read, one value per node
ReadAttributes(all_nodes) == [k \in 1..Len(all_nodes) |-> [of |-> all_nodes[k]]]

\* device.converter.convert(device.nodes, device_values): a telemetry record, and
\* nothing for a device without values
Convert(device, device_values) ==
    IF Len(device_values) = 0 THEN <<>>
    ELSE << [deviceName |-> device.name,
             telemetry |-> [k \in 1..Len(device_values) |->
                               [key |-> device.nodes[k].key, value |-> device_values[k]]]] >>

\* device_values = values[converted_nodes_count:converted_nodes_count + nodes_count]
DeviceValuesFromStart(values, converted_nodes_count, nodes_count) ==
    SubSeq(values, 1, nodes_count)
DeviceValues(values, converted_nodes_count, nodes_count) ==
    SubSeq(values, converted_nodes_count + 1, converted_nodes_count + nodes_count)

\* the fan-out loop: each device gets the next len(device.nodes) values
RECURSIVE FanOut(_, _, _, _)
FanOut(devs, i, converted_nodes_count, values) ==
    IF i > Len(devs) THEN <<>>
    ELSE LET nodes_count == Len(devs[i].nodes)
             device_values == DeviceValues(values, converted_nodes_count, nodes_count)
         IN Convert(devs[i], device_values)
            \o FanOut(devs, i + 1, converted_nodes_count + nodes_count, values)

(* ------------------------------------------------------------------ *)
(* Initial state: the connector as __init__ and open() leave it        *)
(* ------------------------------------------------------------------ *)

\* no read_attributes call was made in this iteration of the acquisition loop
NoRead == [batch |-> <<>>, reads |-> 0]

\* no call from the gateway is under way
NoFrame == [op |-> "none"]

InitThread ==
    /\ exc = "none"
    /\ stopped = FALSE
    /\ connected = FALSE
    /\ session = FALSE
    /\ cancel_pending = FALSE
    /\ next_scan = 0
    /\ next_poll = 0
    /\ subscription = "None"
    /\ data_to_send = <<>>
    /\ space_scanned = 0
    /\ last_torn = {}
    /\ polled = NoRead

InitCommon ==
    /\ InitThread
    /\ device_nodes = <<>>
    /\ frame = NoFrame

Init ==
    /\ InitCommon
    /\ pc = "start"
    /\ retry = IdleRetry
    /\ present \in SUBSET Instances
    /\ faulty \in SUBSET FaultyInstances
    /\ enable_subscriptions \in BOOLEAN

(* ------------------------------------------------------------------ *)
(* start_client: the except and finally clauses                        *)
(* ------------------------------------------------------------------ *)

\* the classes a protocol call (browse, read) may raise into start_client
RaisedByCall == {"ConnectionError", "TimeoutError", "BadCommunicationError", "Exception"}

\* the except clause of start_client that catches a class
HandlerOf(e) ==
    CASE e \in {"ConnectionError", "BadSessionClosed"} -> "lost"
      [] e = "TimeoutError" -> "timeout"
      [] e = "CancelledError" -> "cancelled"
      [] e \in {"BadNodeIdUnknown", "BadCommunicationError", "UaStatusCodeError"} -> "status"
      [] OTHER -> "other"

\* how client.disconnect() may end
DisconnectOutcomes == {"ok", "TimeoutError", "ConnectionError"}

\* the except clauses that call disconnect_if_connected()
Disconnecting(e) == HandlerOf(e) \in {"timeout", "status"}

\* disconnect_if_connected() swallows only TimeoutError: any other error of
\* client.disconnect() leaves it
DisconnectRaises(outcome) == connected /\ outcome # "ok" /\ outcome # "TimeoutError"

\* the connected flag after an except clause
ConnectedAfterError == connected

\* the finally clause: the connected flag falls only when stopped; then sleep(.5)
FinallyConnected(c) == IF stopped THEN FALSE ELSE c

\* start_client handles exception e raised inside its try block: the matching
\* except clause (with its disconnect, which ends as outcome says, and its
\* sleep(5) after a timeout), then the finally clause.  An error that leaves
\* disconnect_if_connected() leaves the except clause and, after the finally
\* clause, start_client: run() logs it and the connector thread ends.  scan and
\* poll are the deadlines, and open the session, as the try block left them
HandledFrom(e, outcome, scan, poll, open) ==
    LET escapes == Disconnecting(e) /\ DisconnectRaises(outcome)
    IN /\ exc' = e
       /\ pc' = IF escapes THEN "dead" ELSE "start"
       /\ session' = IF HandlerOf(e) = "lost" \/ (Disconnecting(e) /\ connected)
                     THEN FALSE ELSE open
       /\ connected' = FinallyConnected(ConnectedAfterError)
       /\ ElapseFrom(scan, poll,
                     CooldownTicks
                     + IF HandlerOf(e) = "timeout" /\ ~escapes THEN TimeoutSleepTicks ELSE 0)
       /\ retry' = IdleRetry

Handled(e, outcome, scan, poll) == HandledFrom(e, outcome, scan, poll, session)

(* ------------------------------------------------------------------ *)
(* start_client: the outer connect loop                                *)
(* ------------------------------------------------------------------ *)

\* "while not self.__stopped" passes: a new Client is made and the connect begins
StartIteration ==
    /\ pc = "start" /\ ~stopped
    /\ pc' = "connect"
    /\ exc' = "none"
    /\ retry' = IdleRetry
    /\ session' = FALSE
    /\ polled' = NoRead
    /\ UNCHANGED <<stopped, connected, cancel_pending, time_vars, dev_vars,
                   data_to_send, env_vars, enable_subscriptions, frame>>

\* "while not self.__stopped" fails: start_client returns and run() ends
ExitLoop ==
    /\ pc = "start" /\ stopped
    /\ pc' = "done"
    /\ UNCHANGED <<exc, stopped, connected, session, cancel_pending, retry, time_vars,
                   dev_vars, data_to_send, env_vars, polled, enable_subscriptions, frame>>

\* one iteration of retry_with_backoff(self.__client.connect): connect raises and
\* the delay is slept, or it succeeds: the lines after the call set connected
\* and enter the acquisition loop
ConnectAttempt ==
    /\ pc = "connect"
    /\ MoreAttempts(retry)
    /\ \E ok \in BOOLEAN :
        LET r == RetryStep(retry, ok)
        IN IF r.returned
           THEN /\ retry' = IdleRetry
                /\ connected' = TRUE
                /\ session' = TRUE
                /\ pc' = "loop"
                /\ UNCHANGED time_vars
           ELSE /\ retry' = r
                /\ Elapse(Ticks(retry.delay))
                /\ UNCHANGED <<pc, connected, session>>
    /\ UNCHANGED <<exc, stopped, cancel_pending, dev_vars, data_to_send, env_vars,
                   polled, enable_subscriptions, frame>>

\* retry_with_backoff gives up and returns None: "if not ...protocol" calls
\* disconnect_if_connected() and continues, through the finally clause
ConnectGivesUp ==
    /\ pc = "connect"
    /\ ~MoreAttempts(retry)
    /\ RetryStep(retry, FALSE).result = "None"
    /\ \E outcome \in DisconnectOutcomes :
        IF DisconnectRaises(outcome)
        THEN Handled(outcome, outcome, next_scan, next_poll)
        ELSE /\ pc' = "start"
             /\ connected' = FinallyConnected(connected)
             /\ session' = FALSE
             /\ retry' = IdleRetry
             /\ Elapse(CooldownTicks)
             /\ UNCHANGED exc
    /\ UNCHANGED <<stopped, cancel_pending, dev_vars, data_to_send, env_vars,
                   polled, enable_subscriptions, frame>>

(* ------------------------------------------------------------------ *)
(* start_client: the acquisition loop                                  *)
(* ------------------------------------------------------------------ *)

LoadEnv == [space |-> present, faulty |-> faulty, subs |-> enable_subscriptions,
            stopped |-> stopped]

\* "while not self.__stopped" of the inner loop fails: the try block ends, the
\* finally clause runs
LoopExit ==
    /\ pc = "loop" /\ stopped
    /\ pc' = "start"
    /\ connected' = FinallyConnected(connected)
    /\ Elapse(CooldownTicks)
    /\ UNCHANGED <<exc, stopped, session, cancel_pending, retry, dev_vars, data_to_send,
                   env_vars, polled, enable_subscriptions, frame>>

\* the scan is not due
ScanSkip ==
    /\ pc = "loop" /\ ~stopped /\ next_scan > 0
    /\ pc' = "poll_check"
    /\ UNCHANGED <<exc, stopped, connected, session, cancel_pending, retry, time_vars,
                   dev_vars, data_to_send, env_vars, polled, enable_subscriptions, frame>>

\* the scan is due: next_scan = monotonic() + scan_period, then
\* __scan_device_nodes: _create_new_devices and _load_devices_nodes, both to
\* their end
Scan ==
    /\ pc = "loop" /\ ~stopped /\ next_scan = 0
    /\ next_scan' = ScanPeriod
    /\ LET r == LoadDevices(CreateNewDevices(device_nodes, present), 1, -1,
                            subscription, LoadEnv)
       IN /\ device_nodes' = r.devs
          /\ subscription' = r.sub
    /\ last_torn' = AbsentNames(DeviceNamesOf(device_nodes), present)
    /\ space_scanned' = IF space_scanned = 0 THEN 1 ELSE 2
    /\ pc' = "poll_check"
    /\ UNCHANGED <<exc, stopped, connected, session, cancel_pending, retry, next_poll,
                   data_to_send, env_vars, polled, enable_subscriptions, frame>>

\* the scan is due and find_nodes raises while _create_new_devices walks the
\* mapping: the templates before the failing one have been instantiated,
\* nothing is torn down, no node is loaded
ScanCreateRaises ==
    /\ pc = "loop" /\ ~stopped /\ next_scan = 0
    /\ \E upto \in 0..(Len(Mapping) - 1), e \in RaisedByCall, outcome \in DisconnectOutcomes :
        /\ device_nodes' = AddForTemplates(device_nodes, DeviceNamesOf(device_nodes),
                                           1, upto, present)
        /\ Handled(e, outcome, ScanPeriod, next_poll)
    /\ space_scanned' = 0
    /\ UNCHANGED <<stopped, cancel_pending, subscription, last_torn, data_to_send,
                   env_vars, polled, enable_subscriptions, frame>>

\* the scan is due, _create_new_devices runs to its end and _load_devices_nodes
\* is cut short by a ConnectionError, the one class its handlers raise again
ScanLoadRaises ==
    /\ pc = "loop" /\ ~stopped /\ next_scan = 0
    /\ LET created == CreateNewDevices(device_nodes, present)
       IN \E budget \in 0..(CountValues(created, 1) - 1) :
            LET r == LoadDevices(created, 1, budget, subscription, LoadEnv)
            IN /\ device_nodes' = r.devs
               /\ subscription' = r.sub
    /\ last_torn' = AbsentNames(DeviceNamesOf(device_nodes), present)
    /\ space_scanned' = 0
    /\ Handled("ConnectionError", "ok", ScanPeriod, next_poll)
    /\ UNCHANGED <<stopped, cancel_pending, data_to_send, env_vars, polled,
                   enable_subscriptions, frame>>

\* the poll is not due
PollSkip ==
    /\ pc = "poll_check" /\ next_poll > 0
    /\ pc' = "idle"
    /\ UNCHANGED <<exc, stopped, connected, session, cancel_pending, retry, time_vars,
                   dev_vars, data_to_send, env_vars, polled, enable_subscriptions, frame>>

\* the nodes __poll_nodes batches: every entry of every device.nodes
PollBatch(devs) == AllNodes(devs, 1)

\* the poll is due: next_poll = monotonic() + poll_period, then __poll_nodes
\* reads the batch, converts and queues each device's values
Poll ==
    /\ pc = "poll_check" /\ next_poll = 0
    /\ next_poll' = PollPeriod
    /\ LET all_nodes == PollBatch(device_nodes)
       IN /\ polled' = [batch |-> all_nodes, reads |-> IF Len(all_nodes) > 0 THEN 1 ELSE 0]
          /\ data_to_send' = data_to_send
                             \o FanOut(device_nodes, 1, 0, ReadAttributes(all_nodes))
    /\ pc' = "idle"
    /\ UNCHANGED <<exc, stopped, connected, session, cancel_pending, retry, next_scan,
                   dev_vars, env_vars, enable_subscriptions, frame>>

\* the poll is due and read_attributes raises: nothing is converted or queued
PollRaises ==
    /\ pc = "poll_check" /\ next_poll = 0
    /\ Len(PollBatch(device_nodes)) > 0
    /\ polled' = [batch |-> PollBatch(device_nodes), reads |-> 1]
    /\ \E e \in RaisedByCall, outcome \in DisconnectOutcomes :
        Handled(e, outcome, next_scan, PollPeriod)
    /\ UNCHANGED <<stopped, cancel_pending, dev_vars, data_to_send, env_vars,
                   enable_subscriptions, frame>>

\* time_to_sleep = min(next_poll - now, next_scan - now); sleep when positive.
\* The sender thread, which looks at the queue every 0.05 s, has emptied it by
\* the end of the sleep
Sleep ==
    /\ pc = "idle"
    /\ stopped \/ data_to_send = <<>>
    /\ Elapse(Max(Min(next_poll, next_scan), 0))
    /\ pc' = "loop"
    /\ polled' = NoRead
    /\ UNCHANGED <<exc, stopped, connected, session, cancel_pending, retry, dev_vars,
                   data_to_send, env_vars, enable_subscriptions, frame>>

(* ------------------------------------------------------------------ *)
(* close(), the sender thread and the server                           *)
(* ------------------------------------------------------------------ *)

\* the first lines of close(): the flags, and __disconnect and
\* __cancel_all_tasks scheduled on the loop
CloseFlags ==
    /\ stopped' = TRUE
    /\ connected' = FALSE
    /\ cancel_pending' = TRUE
    /\ UNCHANGED <<pc, exc, session, retry, time_vars, dev_vars, data_to_send, env_vars,
                   polled, enable_subscriptions>>

\* close() on a running connector; its wait for the thread changes nothing of
\* the connector
Close ==
    /\ ~stopped
    /\ pc \notin {"done", "dead"}
    /\ CloseFlags
    /\ UNCHANGED frame

\* the coroutines close() scheduled run on the loop, one after the other:
\* __disconnect begins client.disconnect(), which closes the session or not
\* before __cancel_all_tasks cancels every task, it among them; start_client,
\* suspended inside its try block, is resumed with CancelledError
CancelAllTasks ==
    /\ cancel_pending
    /\ pc \in {"connect", "loop", "poll_check", "idle"}
    /\ cancel_pending' = FALSE
    /\ \E closed \in BOOLEAN :
        HandledFrom("CancelledError", "ok", next_scan, next_poll,
                    IF closed THEN FALSE ELSE session)
    /\ UNCHANGED <<stopped, dev_vars, data_to_send, env_vars, polled,
                   enable_subscriptions, frame>>

\* start_client has left its try block with the stop flag set and is in the
\* sleep(.5) of its finally clause when __cancel_all_tasks cancels it: no except
\* clause of start_client is around that sleep, CancelledError leaves
\* run_until_complete and run() runs client.disconnect() to its end, or to the
\* error that ends the thread
RunCancelled ==
    /\ cancel_pending
    /\ pc = "start" /\ stopped
    /\ cancel_pending' = FALSE
    /\ exc' = "CancelledError"
    /\ session' = FALSE
    /\ \E outcome \in DisconnectOutcomes :
        pc' = IF outcome = "ok" THEN "done" ELSE "dead"
    /\ UNCHANGED <<stopped, connected, retry, time_vars, dev_vars, data_to_send,
                   env_vars, polled, enable_subscriptions, frame>>

\* __send_data: one record leaves the queue for the gateway's storage
SendData ==
    /\ ~stopped
    /\ data_to_send # <<>>
    /\ data_to_send' = Tail(data_to_send)
    /\ UNCHANGED <<conn_vars, time_vars, dev_vars, env_vars, polled, enable_subscriptions, frame>>

\* the server's address space changes.  The connector looks at it only in a
\* scan, so a change at any time since the last scan is a change just before
\* the next one
ServerChange ==
    /\ pc = "loop" /\ ~stopped /\ next_scan = 0
    /\ \E p \in SUBSET Instances, f \in SUBSET FaultyInstances :
        /\ <<p, f>> # <<present, faulty>>
        /\ present' = p
        /\ faulty' = f
    /\ space_scanned' = 0
    /\ UNCHANGED <<conn_vars, time_vars, device_nodes, subscription, last_torn,
                   data_to_send, polled, enable_subscriptions, frame>>

Next ==
    \/ StartIteration
    \/ ExitLoop
    \/ ConnectAttempt
    \/ ConnectGivesUp
    \/ LoopExit
    \/ ScanSkip
    \/ Scan
    \/ ScanCreateRaises
    \/ ScanLoadRaises
    \/ PollSkip
    \/ Poll
    \/ PollRaises
    \/ Sleep
    \/ Close
    \/ CancelAllTasks
    \/ RunCancelled
    \/ SendData
    \/ ServerChange

Spec == Init /\ [][Next]_vars

(* ------------------------------------------------------------------ *)
(* retry_with_backoff on its own, for every max_retries, initial_delay *)
(* and backoff_factor within the bounds                                *)
(* ------------------------------------------------------------------ *)

InitRetry ==
    /\ InitCommon
    /\ pc = "retry"
    /\ present = {}
    /\ faulty = {}
    /\ enable_subscriptions = TRUE
    /\ \E n \in 0..MaxN, d \in 0..MaxD, f \in 1..MaxF : retry = RetryEnter(n, d, f)

\* one iteration of the loop, with func succeeding or raising
RetryIteration ==
    /\ pc = "retry"
    /\ ~retry.returned
    /\ \E ok \in BOOLEAN : retry' = RetryStep(retry, ok)
    /\ UNCHANGED <<pc, exc, stopped, connected, session, cancel_pending, time_vars,
                   dev_vars, data_to_send, env_vars, polled, enable_subscriptions, frame>>

NextRetry == RetryIteration

SpecRetry == InitRetry /\ [][NextRetry]_vars

(* ------------------------------------------------------------------ *)
(* __poll_nodes on its own, for every registry within the bounds: any  *)
(* number of devices, each with any number of bound nodes              *)
(* ------------------------------------------------------------------ *)

KeyNames == <<"temperature", "humidity", "pressure", "battery">>

\* the device at place i of the registry, named name, n of its nodes bound
PolledDevice(i, name, n) ==
    [name |-> name, path |-> i, tmpl |-> 1,
     values |-> [k \in 1..n |-> [NewBinding(KeyNames[k]) EXCEPT !.valid = "True",
                                                               !.qualified_path = TRUE]],
     nodes |-> [k \in 1..n |-> [node |-> <<i, KeyNames[k]>>, key |-> KeyNames[k]]]]

\* the connector connected, a poll due
InitPoll ==
    /\ pc = "poll_check"
    /\ exc = "none"
    /\ stopped = FALSE
    /\ connected = TRUE
    /\ session = TRUE
    /\ cancel_pending = FALSE
    /\ retry = IdleRetry
    /\ next_scan = ScanPeriod
    /\ next_poll = 0
    /\ subscription = "None"
    /\ data_to_send = <<>>
    /\ present = {}
    /\ faulty = {}
    /\ space_scanned = 0
    /\ last_torn = {}
    /\ polled = NoRead
    /\ enable_subscriptions = FALSE
    /\ frame = NoFrame
    /\ \E len \in 0..MaxPollDevices :
        \E name \in [1..len -> Names], n \in [1..len -> 0..MaxPollNodes] :
            device_nodes = [i \in 1..len |-> PolledDevice(i, name[i], n[i])]

NextPoll == Poll

SpecPoll == InitPoll /\ [][NextPoll]_vars

(* ------------------------------------------------------------------ *)
(* close() from its call to its return, beside a connector thread that *)
(* ends at some time or never                                          *)
(* ------------------------------------------------------------------ *)

\* Thread.is_alive(): run() has not returned
IsAlive == pc \notin {"done", "dead"}

\* "if monotonic() - start_time > 5"
GraceElapsedLate(f) == f.waited > GraceTenths + 5
GraceElapsed(f) == f.waited > GraceTenths

\* the connector thread at any place of start_client, or ended, when close() is
\* called
InitClose ==
    /\ pc \in {"start", "connect", "loop", "poll_check", "idle", "done", "dead"}
    /\ exc = "none"
    /\ stopped = FALSE
    /\ connected = (pc \in {"loop", "poll_check", "idle"})
    /\ session = connected
    /\ cancel_pending = FALSE
    /\ retry = IdleRetry
    /\ next_scan = ScanPeriod
    /\ next_poll \in {0, PollPeriod}
    /\ device_nodes = <<>>
    /\ subscription = "None"
    /\ data_to_send = <<>>
    /\ present = {}
    /\ faulty = {}
    /\ space_scanned = 0
    /\ last_torn = {}
    /\ polled = NoRead
    /\ enable_subscriptions = TRUE
    /\ frame = NoFrame

\* close() up to its loop: the flags, the two coroutines handed to the loop in
\* this order, start_time = monotonic()
CloseCall ==
    /\ frame.op = "none"
    /\ CloseFlags
    /\ frame' = [op |-> "close", pc |-> "wait", waited |-> 0, failed |-> FALSE,
                 scheduled |-> <<"__disconnect", "__cancel_all_tasks">>]

\* "while self.is_alive()" with the grace period not over: sleep(.1)
CloseWait ==
    /\ frame.op = "close" /\ frame.pc = "wait"
    /\ IsAlive /\ ~GraceElapsed(frame)
    /\ frame' = [frame EXCEPT !.waited = @ + 1]
    /\ UNCHANGED <<conn_vars, time_vars, dev_vars, data_to_send, env_vars, polled,
                   enable_subscriptions>>

\* the thread has ended, or the grace period is over and the failure is logged:
\* close() leaves its loop and returns
CloseReturn ==
    /\ frame.op = "close" /\ frame.pc = "wait"
    /\ ~IsAlive \/ GraceElapsed(frame)
    /\ frame' = [frame EXCEPT !.pc = "returned", !.failed = IsAlive]
    /\ UNCHANGED <<conn_vars, time_vars, dev_vars, data_to_send, env_vars, polled,
                   enable_subscriptions>>

\* the steps of the connector thread once the stop flag is set
ThreadAfterStop ==
    /\ stopped
    /\ \/ ExitLoop
       \/ ConnectAttempt
       \/ ConnectGivesUp
       \/ LoopExit
       \/ PollSkip
       \/ Poll
       \/ Sleep
       \/ CancelAllTasks
       \/ RunCancelled

NextClose ==
    \/ CloseCall
    \/ CloseWait
    \/ CloseReturn
    \/ ThreadAfterStop

\* close() runs in the caller's thread and its sleep(.1) ends: its steps are
\* taken; nothing is asked of the connector thread
SpecClose ==
    /\ InitClose /\ [][NextClose]_vars
    /\ WF_vars(CloseWait) /\ WF_vars(CloseReturn)

(* ------------------------------------------------------------------ *)
(* server_side_rpc_handler on its own, for every request, rpc_methods  *)
(* table and outcome of the server's call within the bounds            *)
(* ------------------------------------------------------------------ *)

\* a segment "name=val" of the params string, or "val" alone (name "")
Seg(name, val) == [name |-> name, val |-> val]

\* the params strings drawn: "ns=2;s=Temp;value=5", "ns=2;s=Missing;value=5",
\* "ns=2;s=Temp", "ns=2;s=Missing", "Root.Temp;x;value=5", "Root.Temp", ""
RpcParams ==
    { <<Seg("ns", "2"), Seg("s", "Temp"), Seg("value", "5")>>,
      <<Seg("ns", "2"), Seg("s", "Missing"), Seg("value", "5")>>,
      <<Seg("ns", "2"), Seg("s", "Temp")>>,
      <<Seg("ns", "2"), Seg("s", "Missing")>>,
      <<Seg("", "Root.Temp"), Seg("", "x"), Seg("value", "5")>>,
      <<Seg("", "Root.Temp")>>,
      <<Seg("", "")>> }

\* the node ids the server holds: ns=2;s=Temp
ServerNodes == { <<Seg("ns", "2"), Seg("s", "Temp")>> }

\* the methods a device may have in its rpc_methods table
DeviceMethods == {"start", "stop", "reset"}

\* rpc_method.split('_')
SplitMethod(rpc_method) ==
    CASE rpc_method = "opcua_get" -> <<"opcua", "get">>
      [] rpc_method = "opcua_set" -> <<"opcua", "set">>
      [] OTHER -> <<rpc_method>>

\* params.split(' ')[0].split('=')[-1]: what follows the last '='
DeviceFromParams(params) == params[Len(params)].val

\* 'ns' in params
HasNs(params) == \E k \in 1..Len(params) : params[k].name = "ns"

\* full_path: with 'ns', the segments joined again, all but the last for a set;
\* without, what follows '=' in the first segment
FullPath(rpc_method, args_list) ==
    IF HasNs(args_list)
    THEN IF rpc_method = "set" THEN SubSeq(args_list, 1, Len(args_list) - 1) ELSE args_list
    ELSE <<Seg("", args_list[1].val)>>

\* client.get_node(path) takes the string for a node id
IsNodeId(path) == Len(path) = 2 /\ path[1].name = "ns" /\ path[2].name \in {"s", "i"}

\* the requests drawn: a connector RPC (opcua_get, opcua_set: no 'data', no
\* 'device') and a device RPC (a pseudo-RPC get or set, or a method of the
\* device)
RpcRequests ==
    { [device |-> "", data |-> FALSE, method |-> m, params |-> p, id |-> 1] :
        m \in {"opcua_get", "opcua_set"}, p \in RpcParams }
    \cup
    { [device |-> d, data |-> TRUE, method |-> m, params |-> p, id |-> 1] :
        d \in {"A", "Z"}, m \in {"get", "set"}, p \in RpcParams }
    \cup
    { [device |-> d, data |-> TRUE, method |-> m, params |-> <<>>, id |-> 1] :
        d \in {"A", "Z"}, m \in DeviceMethods }

\* what the handler has done so far
NoEffects == [replies |-> <<>>, reads |-> 0, writes |-> 0, calls |-> 0, raised |-> "none"]

\* send_rpc_reply(device, req_id, content); code 0: the content has no 'code'
Reply(device, req_id, method, result, code) ==
    [device |-> device, req_id |-> req_id, method |-> method, result |-> result,
     code |-> code]

\* the result dict of a scheduled operation: 'error' ("" when the key is not
\* set) and 'value' or 'result' ("" when not set)
Result(error, value) == [error |-> error, value |-> value]

\* __read_value and __write_value: the result dict they leave
ReadResultSwallowed(path) == Result("", "")
ReadResult(path) ==
    IF IsNodeId(path) /\ path \in ServerNodes THEN Result("", "read")
    ELSE Result("BadNodeIdUnknown", "")
WriteResult(path) ==
    IF IsNodeId(path) /\ path \in ServerNodes THEN Result("", "")
    ELSE Result("BadNodeIdUnknown", "")

\* __call_method: the exception of the server's call is kept in the result
CallResult(call_ok) == IF call_ok THEN Result("", "called") ELSE Result("BadMethodInvalid", "")

\* the get/set branch.  The IndexError handler of the parsing (the reply with
\* code 400) is never entered: split() returns at least one segment, and a
\* slice raises nothing.  args_list[2] of a set is outside that try block
GetSet(device, rpc_method, method, req_id, params) ==
    LET full_path == FullPath(rpc_method, params)
    IN IF rpc_method = "get"
       THEN [NoEffects EXCEPT
                !.reads = IF IsNodeId(full_path) THEN 1 ELSE 0,
                !.replies = <<Reply(device, req_id, method, ReadResult(full_path), 0)>>]
       ELSE IF Len(params) < 3
            THEN [NoEffects EXCEPT !.raised = "IndexError"]
            ELSE [NoEffects EXCEPT
                    !.writes = IF IsNodeId(full_path) THEN 1 ELSE 0,
                    !.replies = <<Reply(device, req_id, method, WriteResult(full_path), 0)>>]

\* the loop over device.config['rpc_methods'] from the k-th entry on: an entry
\* of the method's name schedules the call and replies with code 200, any other
\* entry replies with code 404
RECURSIVE MethodLoop(_, _, _, _, _)
MethodLoop(rpc_methods, k, content, call_ok, eff) ==
    IF k > Len(rpc_methods) THEN eff
    ELSE MethodLoop(rpc_methods, k + 1, content, call_ok,
            IF rpc_methods[k].method = content.method
            THEN [eff EXCEPT
                    !.calls = @ + 1,
                    !.replies = Append(@, Reply(content.device, content.id, content.method,
                                                CallResult(call_ok), 200))]
            ELSE [eff EXCEPT
                    !.replies = Append(@, Reply(content.device, content.id, "error",
                                                Result("Method not found", ""), 404))])

\* the branch of a device's own method: the first device of that name (an
\* IndexError when there is none), then the loop over its table
DeviceMethod(content, devs, call_ok) ==
    LET found == SelectSeq(devs, LAMBDA d : d.name = content.device)
    IN IF found = <<>> THEN [NoEffects EXCEPT !.raised = "IndexError"]
       ELSE MethodLoop(found[1].rpc_methods, 1, content, call_ok, NoEffects)

\* the branch without a device: the method is called on every device, with
\* content['data']['params']["arguments"], which a params string does not have
AllDevices(content, devs) ==
    IF devs = <<>> THEN NoEffects ELSE [NoEffects EXCEPT !.raised = "TypeError"]

\* server_side_rpc_handler(content).  Whatever is raised is logged by the
\* outermost except clause and the handler returns
ServerSideRpcHandler(content, devs, call_ok) ==
    LET parts == SplitMethod(content.method)
        connector == Len(parts) = 2 /\ parts[1] = "opcua"
        rpc_method == IF connector THEN parts[2] ELSE content.method
        device == IF connector THEN DeviceFromParams(content.params) ELSE content.device
    IN IF connector /\ content.data
       THEN [NoEffects EXCEPT !.raised = "KeyError"]
       ELSE IF device # ""
            THEN IF rpc_method \in {"get", "set"}
                 THEN GetSet(device, rpc_method, content.method, content.id, content.params)
                 ELSE DeviceMethod([content EXCEPT !.device = device], devs, call_ok)
            ELSE AllDevices(content, devs)

\* a device with its rpc_methods table
RpcDevice(name, methods) ==
    [name |-> name, path |-> 1, tmpl |-> 1, values |-> <<>>, nodes |-> <<>>,
     rpc_methods |-> [k \in 1..Len(methods) |-> [method |-> methods[k], arguments |-> <<>>]]]

\* the connector connected and asleep between two cycles, device A known, a
\* request arriving
InitRpc ==
    /\ pc = "idle"
    /\ exc = "none"
    /\ stopped = FALSE
    /\ connected = TRUE
    /\ session = TRUE
    /\ cancel_pending = FALSE
    /\ retry = IdleRetry
    /\ next_scan = ScanPeriod
    /\ next_poll = PollPeriod
    /\ subscription = "None"
    /\ data_to_send = <<>>
    /\ present = {}
    /\ faulty = {}
    /\ space_scanned = 0
    /\ last_torn = {}
    /\ polled = NoRead
    /\ enable_subscriptions = FALSE
    /\ \E n \in 0..MaxRpcTable : \E methods \in [1..n -> DeviceMethods] :
            device_nodes = <<RpcDevice("A", methods)>>
    /\ \E content \in RpcRequests, call_ok \in BOOLEAN :
            frame = [op |-> "rpc", pc |-> "called", content |-> content,
                     call_ok |-> call_ok, effects |-> NoEffects]

\* the handler runs from its call to its return
RpcCall ==
    /\ frame.op = "rpc" /\ frame.pc = "called"
    /\ frame' = [frame EXCEPT
                    !.pc = "returned",
                    !.effects = ServerSideRpcHandler(frame.content, device_nodes,
                                                     frame.call_ok)]
    /\ UNCHANGED <<conn_vars, time_vars, dev_vars, data_to_send, env_vars, polled,
                   enable_subscriptions>>

NextRpc == RpcCall

SpecRpc == InitRpc /\ [][NextRpc]_vars

(* ------------------------------------------------------------------ *)
(* find_nodes on its own, for every pattern and address space within   *)
(* the bounds                                                          *)
(* ------------------------------------------------------------------ *)

\* a browse name: NamespaceIndex and Name
QName(ns, name) == [ns |-> ns, name |-> name]

\* a segment of a path or pattern: "ns:name", or "name" alone (ns = -1)
Unqualified == 0 - 1
Segment(ns, name) == [ns |-> ns, name |-> name]

\* the nodes the server may hold below Root.Objects, in browse order
Browsable ==
    << QName(1, "Room"), QName(2, "Room"), QName(1, "Room1"), QName(1, "Room2"),
       QName(1, "Pump") >>

\* the variables a device node may hold, in browse order
DeviceVariables == << QName(2, "Setpoint"), QName(2, "Mode") >>

\* an address space: the set of the paths, from the root, of its nodes
TreeOf(children) ==
    { <<>>, <<QName(0, "Objects")>> }
    \cup { <<QName(0, "Objects"), Browsable[k]>> : k \in children }

\* current_parent_node.get_children() with read_browse_name() of each
GetChildren(tree, parent) ==
    LET all == <<QName(0, "Objects")>> \o Browsable \o DeviceVariables
    IN SelectSeq(all, LAMBDA c : Append(parent, c) \in tree)

\* re.fullmatch(re.escape(node_list[0]), Name) or node_list[0].split(':')[-1] == Name.
\* The escaped segment matches its own text only, which has to be the whole
\* segment (one without "ns:"); the second test compares the part after ':'
SegmentMatches(segment, child) ==
    \/ segment.ns = Unqualified /\ segment.name = child.name
    \/ segment.name = child.name

\* the loop of __find_nodes over the children from the k-th on
RECURSIVE FindNodesLoop(_, _, _, _, _)
FindNodesLoop(node_list, parent, nodes, tree, k) ==
    LET children == GetChildren(tree, parent)
    IN IF k > Len(children) THEN <<>>
       ELSE LET child == children[k]
                new_nodes == Append(nodes, child)
            IN (IF SegmentMatches(node_list[1], child)
                THEN IF Len(node_list) = 1
                     THEN <<new_nodes>>
                     ELSE FindNodesLoop(Tail(node_list), Append(parent, child), new_nodes,
                                        tree, 1)
                ELSE <<>>)
               \o FindNodesLoop(node_list, parent, nodes, tree, k + 1)

\* __find_nodes(node_list, current_parent_node, nodes)
FindNodesUnder(node_list, parent, nodes, tree) == FindNodesLoop(node_list, parent, nodes, tree, 1)

\* find_nodes(node_pattern): the pattern split at "\.", a leading "root" dropped
FindNodesOf(node_pattern, tree) ==
    LET node_list == IF Len(node_pattern) > 0 /\ node_pattern[1].name \in {"Root", "root"}
                     THEN Tail(node_pattern) ELSE node_pattern
    IN FindNodesUnder(node_list, <<>>, <<>>, tree)

\* the last segments drawn: names, a qualified name, and regular expressions
LastSegments ==
    { Segment(Unqualified, "Room"), Segment(2, "Room"), Segment(Unqualified, "Pump"),
      Segment(Unqualified, "Room.*"), Segment(Unqualified, "Room[12]") }

\* an address space and a pattern Root\.Objects\.<segment>
InitFind ==
    /\ InitThread
    /\ pc = "find"
    /\ retry = IdleRetry
    /\ device_nodes = <<>>
    /\ present = {}
    /\ faulty = {}
    /\ enable_subscriptions = TRUE
    /\ \E children \in SUBSET (1..Len(Browsable)), last \in LastSegments :
            frame = [op |-> "find_nodes", pc |-> "called",
                     node_pattern |-> << Segment(Unqualified, "Root"),
                                         Segment(Unqualified, "Objects"), last >>,
                     tree |-> TreeOf(children), final |-> <<>>]

FindCall ==
    /\ frame.op = "find_nodes" /\ frame.pc = "called"
    /\ frame' = [frame EXCEPT !.pc = "returned",
                               !.final = FindNodesOf(frame.node_pattern, frame.tree)]
    /\ UNCHANGED <<conn_vars, time_vars, dev_vars, data_to_send, env_vars, polled,
                   enable_subscriptions>>

NextFind == FindCall

SpecFind == InitFind /\ [][NextFind]_vars

(* ------------------------------------------------------------------ *)
(* on_attributes_update on its own, called from the gateway's thread   *)
(* ------------------------------------------------------------------ *)

MaxRules == 2
MaxKeys == 2

\* the device the update is for: its node 2:Room below Root.Objects
RoomPath == << QName(0, "Objects"), QName(2, "Room") >>
RoomTree(variables) ==
    TreeOf({2}) \cup { Append(RoomPath, DeviceVariables[k]) : k \in variables }

\* attributes_updates rules: the value is a path below the device node,
\* here of one segment, with or without its namespace index
AttributeKeys == {"setpoint", "mode"}
RuleValues ==
    { << Segment(Unqualified, "Setpoint") >>, << Segment(2, "Setpoint") >>,
      << Segment(Unqualified, "Mode") >> }
Rules == [key : AttributeKeys, value : RuleValues]
RuleLists == UNION { [1..n -> Rules] : n \in 0..MaxRules }

\* content['data'], in the order items() gives the keys
UpdateData ==
    { d \in UNION { [1..n -> [key : AttributeKeys, value : {7}]] : n \in 1..MaxKeys } :
        \A i, j \in 1..Len(d) : i # j => d[i].key # d[j].key }

\* root.get_child(path): the node if the address space holds it
HasChild(tree, path) == path \in tree

\* find_node_name_space_index(path): the qualified paths, or the exception.
\* path[:-u_node_count] is the empty list when no segment lacks its index;
\* __find_nodes then fails its assertion (an exception whose text is empty)
\* unless get_child([]) has raised before it
FindNodeNameSpaceIndex(path, tree, empty_child_raises) ==
    LET u_node_count == Cardinality({ k \in 1..Len(path) : path[k].ns = Unqualified })
        resolved == IF u_node_count = 0 THEN <<>>
                    ELSE SubSeq(path, 1, Len(path) - u_node_count)
        resolved_level == Len(path) - u_node_count
        unresolved == SubSeq(path, resolved_level + 1, Len(path))
    IN IF resolved = <<>> /\ empty_child_raises
       THEN [error |-> "BadNothingToDo", raised |-> TRUE, paths |-> <<>>]
       ELSE IF ~HasChild(tree, resolved)
       THEN [error |-> "BadNoMatch", raised |-> TRUE, paths |-> <<>>]
       ELSE IF unresolved = <<>>
       THEN [error |-> "", raised |-> TRUE, paths |-> <<>>]
       ELSE [error |-> "", raised |-> FALSE,
             paths |-> FindNodesUnder(unresolved, resolved, resolved, tree)]

\* get_shared_attr_node_id(path, result): result['result'] or result['error']
GetSharedAttrNodeId(path, tree, empty_child_raises) ==
    LET q_path == FindNodeNameSpaceIndex(path, tree, empty_child_raises)
    IN IF q_path.raised
       THEN [has_result |-> FALSE, result |-> <<>>, has_error |-> TRUE, error |-> q_path.error]
       ELSE IF q_path.paths = <<>>
       THEN [has_result |-> FALSE, result |-> <<>>, has_error |-> TRUE,
             error |-> "list index out of range"]
       ELSE IF ~HasChild(tree, q_path.paths[1])
       THEN [has_result |-> FALSE, result |-> <<>>, has_error |-> TRUE, error |-> "BadNoMatch"]
       ELSE [has_result |-> TRUE, result |-> q_path.paths[1], has_error |-> FALSE,
             error |-> ""]

\* the first (key of the data, rule of the device) pair with equal keys, in
\* the order of the two loops; <<0, 0>> when there is none
FirstRule(data, rules) ==
    LET pairs == { p \in (1..Len(data)) \X (1..Len(rules)) : rules[p[2]].key = data[p[1]].key }
    IN IF pairs = {} THEN <<0, 0>>
       ELSE CHOOSE p \in pairs :
                \A q \in pairs : p[1] < q[1] \/ (p[1] = q[1] /\ p[2] <= q[2])

\* on_attributes_update(content): the writes it schedules, what it logs, and
\* whether an exception leaves it
OnAttributesUpdate(content, devices, tree, empty_child_raises) ==
    LET found == SelectSeq(devices, LAMBDA d : d.name = content.device)
        none == [writes |-> <<>>, raised |-> FALSE, logged |-> "none"]
    IN IF found = <<>> THEN [none EXCEPT !.logged = "IndexError"]
       ELSE LET device == found[1]
                first == FirstRule(content.data, device.attributes_updates)
            IN IF first = <<0, 0>> THEN none
               ELSE LET key == content.data[first[1]].key
                        value == content.data[first[1]].value
                        attr_update == device.attributes_updates[first[2]]
                        result == GetSharedAttrNodeId(device.path \o attr_update.value, tree,
                                                      empty_child_raises)
                    IN IF result.has_error /\ result.error # ""
                       THEN [none EXCEPT !.logged = "Node not found"]
                       ELSE IF ~result.has_result
                       THEN [none EXCEPT !.logged = "KeyError"]
                       ELSE [none EXCEPT !.writes =
                                <<[key |-> key, node_id |-> result.result, value |-> value]>>]

InitAttr ==
    /\ InitThread
    /\ pc = "attributes"
    /\ retry = IdleRetry
    /\ device_nodes = <<>>
    /\ present = {}
    /\ faulty = {}
    /\ enable_subscriptions = TRUE
    /\ \E variables \in SUBSET (1..Len(DeviceVariables)), rules \in RuleLists,
          device \in {"Room", "Hall"}, data \in UpdateData :
            frame = [op |-> "on_attributes_update", pc |-> "called",
                     content |-> [device |-> device, data |-> data],
                     devices |-> << [name |-> "Room", path |-> RoomPath,
                                     attributes_updates |-> rules] >>,
                     tree |-> RoomTree(variables),
                     effects |-> [writes |-> <<>>, raised |-> FALSE, logged |-> "none"]]

AttributesUpdate ==
    /\ frame.op = "on_attributes_update" /\ frame.pc = "called"
    /\ \E empty_child_raises \in BOOLEAN :
            frame' = [frame EXCEPT !.pc = "returned",
                                   !.effects = OnAttributesUpdate(frame.content, frame.devices,
                                                                  frame.tree, empty_child_raises)]
    /\ UNCHANGED <<conn_vars, time_vars, dev_vars, data_to_send, env_vars, polled,
                   enable_subscriptions>>

NextAttr == AttributesUpdate

SpecAttr == InitAttr /\ [][NextAttr]_vars

(* ------------------------------------------------------------------ *)
(* The acquisition loop's timing on its own, for every configured      *)
(* period within the bounds                                            *)
(* ------------------------------------------------------------------ *)

\* the longest a scan or a poll cycle is taken to last, in ticks
MaxOpTicks == 1

\* pollPeriodInMillis and scanPeriodInMillis of the configuration: from half a
\* second up, in steps of half a second
MaxPeriodSteps == 4
ConfiguredMillis == { 500 * k : k \in 1..MaxPeriodSteps }

\* the configured period in ticks
ConfiguredTicks(millis) == millis \div 500

\* poll_period = int(pollPeriodInMillis / 1000), in seconds, here in ticks
PeriodOf(millis) == Ticks(millis \div 1000)

\* what the loop has done in the iteration last begun: the operations run, the
\* deadline each was given on its start, the time suspended (-1: not yet there)
NoIteration == [ran |-> {}, scan_set |-> 0, poll_set |-> 0, slept |-> 0 - 1, spun |-> FALSE]

\* the connector connected and in its acquisition loop, both deadlines due as
\* after __init__
InitLoop ==
    /\ InitThread
    /\ pc = "loop"
    /\ retry = IdleRetry
    /\ device_nodes = <<>>
    /\ present = {}
    /\ faulty = {}
    /\ enable_subscriptions = TRUE
    /\ \E poll \in ConfiguredMillis, scan \in ConfiguredMillis :
            frame = [op |-> "loop", pollPeriodInMillis |-> poll, scanPeriodInMillis |-> scan,
                     iteration |-> NoIteration, completed |-> FALSE]

\* "if monotonic() >= self.__next_scan": the deadline is set scan_period ahead
\* and the scan runs, lasting d ticks; or the scan is not due
LoopScan ==
    /\ frame.op = "loop" /\ pc = "loop"
    /\ IF next_scan = 0
       THEN \E d \in 0..MaxOpTicks :
              /\ ElapseFrom(PeriodOf(frame.scanPeriodInMillis), next_poll, d)
              /\ frame' = [frame EXCEPT !.iteration =
                             [NoIteration EXCEPT !.ran = {"scan"},
                                                 !.scan_set = PeriodOf(frame.scanPeriodInMillis)]]
       ELSE /\ UNCHANGED time_vars
            /\ frame' = [frame EXCEPT !.iteration = NoIteration]
    /\ pc' = "poll_check"
    /\ UNCHANGED <<exc, stopped, connected, session, cancel_pending, retry, dev_vars,
                   data_to_send, env_vars, polled, enable_subscriptions>>

\* "if monotonic() >= self.__next_poll": likewise for the poll cycle
LoopPoll ==
    /\ frame.op = "loop" /\ pc = "poll_check"
    /\ IF next_poll = 0
       THEN \E d \in 0..MaxOpTicks :
              /\ ElapseFrom(next_scan, PeriodOf(frame.pollPeriodInMillis), d)
              /\ frame' = [frame EXCEPT !.iteration.ran = @ \cup {"poll"},
                                        !.iteration.poll_set = PeriodOf(frame.pollPeriodInMillis)]
       ELSE /\ UNCHANGED time_vars
            /\ UNCHANGED frame
    /\ pc' = "idle"
    /\ UNCHANGED <<exc, stopped, connected, session, cancel_pending, retry, dev_vars,
                   data_to_send, env_vars, polled, enable_subscriptions>>

\* time_to_sleep = min(next_poll - now, next_scan - now); "if time_to_sleep > 0:
\* await asyncio.sleep(time_to_sleep)", and the iteration is over
LoopSleep ==
    /\ frame.op = "loop" /\ pc = "idle"
    /\ LET time_to_sleep == Min(next_poll, next_scan)
       IN /\ Elapse(Max(time_to_sleep, 0))
          /\ frame' = [frame EXCEPT !.iteration.slept = Max(time_to_sleep, 0),
                                    !.iteration.spun = ~(time_to_sleep > 0),
                                    !.completed = TRUE]
    /\ pc' = "loop"
    /\ UNCHANGED <<exc, stopped, connected, session, cancel_pending, retry, dev_vars,
                   data_to_send, env_vars, polled, enable_subscriptions>>

NextLoop == LoopScan \/ LoopPoll \/ LoopSleep

SpecLoop == InitLoop /\ [][NextLoop]_vars

(* ------------------------------------------------------------------ *)
(* Push beside poll: the acquisition loop of one session with the poll *)
(* cycle in two steps, the server's data-change notifications and the  *)
(* drain thread (__convert_sub_data)                                   *)
(* ------------------------------------------------------------------ *)

\* the most notifications waiting in sub_data_to_convert, and the most records
\* waiting in data_to_send when the server sends another notification
MaxPending == 1
MaxQueued == 1

\* the bindings, as (device, node) places of the registry, that are subscribed
SubscribedPlaces(devs) ==
    { p \in (1..Len(devs)) \X (1..MaxPollNodes) :
        p[2] <= Len(devs[p[1]].values) /\ devs[p[1]].values[p[2]].sub_on }

\* found_node.nodeid of the binding at a place
NodeIdAt(devs, p) == << devs[p[1]].path, devs[p[1]].values[p[2]].key >>

\* the bindings whose node['id'] is the notification's node, in the order of
\* the loops over the devices and their nodes
OwnersOfNone(devs, ids, sub_node) == {}
OwnersOf(devs, ids, sub_node) ==
    { p \in ids : p[1] <= Len(devs) /\ NodeIdAt(devs, p) = sub_node }

\* device.converter_for_sub.convert({'section': section, 'key': node['key']}, value)
ConvertSub(device, key, sub_node, value) ==
    Convert([device EXCEPT !.nodes = << [node |-> sub_node, key |-> key] >>], << value >>)

\* what one notification puts on data_to_send: a record per owner, in order
RECURSIVE ConvertedFor(_, _, _, _)
ConvertedFor(devs, owners, sub_node, value) ==
    IF owners = {} THEN <<>>
    ELSE LET p == CHOOSE q \in owners :
                    \A r \in owners : q[1] < r[1] \/ (q[1] = r[1] /\ q[2] <= r[2])
         IN ConvertSub(devs[p[1]], devs[p[1]].values[p[2]].key, sub_node, value)
            \o ConvertedFor(devs, owners \ {p}, sub_node, value)

\* one session, connected, before its first scan; the drain thread started
InitPush ==
    /\ InitThread
    /\ pc = "loop"
    /\ retry = IdleRetry
    /\ device_nodes = <<>>
    /\ present \in SUBSET Instances
    /\ faulty \in SUBSET FaultyInstances
    /\ enable_subscriptions = TRUE
    /\ frame = [op |-> "__convert_sub_data", sub_data_to_convert |-> <<>>, ids |-> {},
                converted |-> 0, beside_poll |-> FALSE, notified_in_poll |-> FALSE]

\* a scan, lasting d ticks, which leaves node['id'] on every binding it
\* subscribes
PushScan ==
    /\ frame.op = "__convert_sub_data"
    /\ pc = "loop" /\ ~stopped /\ next_scan = 0
    /\ \E d \in 0..MaxOpTicks : ElapseFrom(ScanPeriod, next_poll, d)
    /\ LET r == LoadDevices(CreateNewDevices(device_nodes, present), 1, -1,
                            subscription, LoadEnv)
       IN /\ device_nodes' = r.devs
          /\ subscription' = r.sub
          /\ frame' = [frame EXCEPT !.ids = @ \cup SubscribedPlaces(r.devs)]
    /\ last_torn' = AbsentNames(DeviceNamesOf(device_nodes), present)
    /\ space_scanned' = IF space_scanned = 0 THEN 1 ELSE 2
    /\ pc' = "poll_check"
    /\ UNCHANGED <<exc, stopped, connected, session, cancel_pending, retry,
                   data_to_send, env_vars, polled, enable_subscriptions>>

\* the poll is due: next_poll is set, all_nodes collected and, when there is a
\* node, read_attributes is awaited
PollBegin ==
    /\ frame.op = "__convert_sub_data"
    /\ pc = "poll_check" /\ next_poll = 0
    /\ next_poll' = PollPeriod
    /\ LET all_nodes == PollBatch(device_nodes)
       IN /\ polled' = [batch |-> all_nodes, reads |-> IF Len(all_nodes) > 0 THEN 1 ELSE 0]
          /\ pc' = IF Len(all_nodes) > 0 THEN "polling" ELSE "idle"
    /\ frame' = [frame EXCEPT !.beside_poll = FALSE, !.notified_in_poll = FALSE]
    /\ UNCHANGED <<exc, stopped, connected, session, cancel_pending, retry, next_scan,
                   dev_vars, data_to_send, env_vars, enable_subscriptions>>

\* read_attributes returns: each device's values are converted and queued
PollEnd ==
    /\ frame.op = "__convert_sub_data"
    /\ pc = "polling"
    /\ data_to_send' = data_to_send \o FanOut(device_nodes, 1, 0, ReadAttributes(polled.batch))
    /\ pc' = "idle"
    /\ UNCHANGED <<exc, stopped, connected, session, cancel_pending, retry, time_vars,
                   dev_vars, env_vars, polled, enable_subscriptions, frame>>

\* SubHandler.datachange_notification: the server reports a change of a
\* subscribed node while start_client is suspended, in the read of a poll cycle
\* or in its sleep
Notify ==
    /\ frame.op = "__convert_sub_data"
    /\ pc \in {"polling", "idle"}
    /\ Len(frame.sub_data_to_convert) < MaxPending
    /\ Len(data_to_send) < MaxQueued
    /\ \E p \in SubscribedPlaces(device_nodes) :
            frame' = [frame EXCEPT
                        !.sub_data_to_convert =
                            Append(@, [sub_node |-> NodeIdAt(device_nodes, p),
                                       data |-> [of |-> NodeIdAt(device_nodes, p)]]),
                        !.notified_in_poll = @ \/ pc = "polling"]
    /\ UNCHANGED <<conn_vars, time_vars, dev_vars, data_to_send, env_vars, polled,
                   enable_subscriptions>>

\* one turn of the drain loop with a notification waiting
ConvertSubData ==
    /\ frame.op = "__convert_sub_data"
    /\ ~stopped
    /\ frame.sub_data_to_convert # <<>>
    /\ LET head == Head(frame.sub_data_to_convert)
       IN data_to_send' = data_to_send
                \o ConvertedFor(device_nodes, OwnersOf(device_nodes, frame.ids, head.sub_node),
                                head.sub_node, head.data)
    /\ frame' = [frame EXCEPT !.sub_data_to_convert = Tail(@),
                              !.converted = IF @ < MaxPending THEN @ + 1 ELSE @,
                              !.beside_poll = @ \/ pc = "polling"]
    /\ UNCHANGED <<conn_vars, time_vars, dev_vars, env_vars, polled, enable_subscriptions>>

NextPush ==
    \/ PushScan
    \/ ScanSkip
    \/ PollSkip
    \/ PollBegin
    \/ PollEnd
    \/ Sleep
    \/ Notify
    \/ ConvertSubData
    \/ SendData
    \/ ServerChange

SpecPush == InitPush /\ [][NextPush]_vars

(* ------------------------------------------------------------------ *)
(* The start of one iteration of the connect loop, for every identity  *)
(* configuration: the authentication settings and the connect          *)
(* ------------------------------------------------------------------ *)

\* server_conf["identity"] and whether server_conf has "security"
Identities ==
    [type : {"anonymous", "basic", "cert.PEM"}, cert : BOOLEAN, privateKey : BOOLEAN,
     caCert : BOOLEAN, username : BOOLEAN, password : BOOLEAN,
     mode : {"SignAndEncrypt", "Sign"}]

\* __set_auth_settings_by_cert: the RuntimeError it raises for a missing cert
\* or privateKey, like any error of set_security, is caught and logged by its
\* own except clause; nothing leaves it
SetAuthSettingsByCert(identity, set_security_raises) ==
    IF ~identity.cert \/ ~identity.privateKey
    THEN [security_set |-> FALSE, logged |-> "RuntimeError", raised |-> FALSE]
    ELSE IF set_security_raises
    THEN [security_set |-> FALSE, logged |-> "Exception", raised |-> FALSE]
    ELSE [security_set |-> TRUE, logged |-> "none", raised |-> FALSE]

\* start_client from the new Client to the connect: what was set on the client
\* and whether retry_with_backoff(self.__client.connect) was reached
BeginIteration(identity, set_security_raises, stop) ==
    LET by_cert == IF identity.type = "cert.PEM"
                   THEN SetAuthSettingsByCert(identity, set_security_raises)
                   ELSE [security_set |-> FALSE, logged |-> "none", raised |-> FALSE]
    IN [security_set |-> by_cert.security_set,
        logged |-> by_cert.logged,
        user_set |-> identity.username,
        password_set |-> identity.username /\ identity.password,
        aborted |-> by_cert.raised,
        connect_issued |-> ~by_cert.raised /\ ~stop]

InitAuth ==
    /\ InitThread
    /\ pc = "start"
    /\ retry = IdleRetry
    /\ device_nodes = <<>>
    /\ present = {}
    /\ faulty = {}
    /\ enable_subscriptions = TRUE
    /\ \E identity \in Identities :
            frame = [op |-> "start_client", pc |-> "start", identity |-> identity,
                     client |-> [security_set |-> FALSE, logged |-> "none",
                                 user_set |-> FALSE, password_set |-> FALSE,
                                 aborted |-> FALSE, connect_issued |-> FALSE]]

\* "while not self.__stopped" passes and the iteration runs up to the connect
AuthIteration ==
    /\ frame.op = "start_client" /\ frame.pc = "start"
    /\ pc = "start" /\ ~stopped
    /\ \E set_security_raises \in BOOLEAN :
            frame' = [frame EXCEPT !.pc = "connect",
                                   !.client = BeginIteration(frame.identity, set_security_raises,
                                                             stopped)]
    /\ pc' = IF frame'.client.connect_issued THEN "connect" ELSE "start"
    /\ exc' = "none"
    /\ UNCHANGED <<stopped, connected, session, cancel_pending, retry, time_vars, dev_vars,
                   data_to_send, env_vars, polled, enable_subscriptions>>

NextAuth == AuthIteration

SpecAuth == InitAuth /\ [][NextAuth]_vars

(* ------------------------------------------------------------------ *)
(* A command of the gateway's thread and the task it puts on the loop: *)
(* create_task, then "while not task.done(): sleep"                    *)
(* ------------------------------------------------------------------ *)

\* the looks at task.done() that are counted
MaxWaits == 3

\* the places where a handler waits for a task: get and set of
\* server_side_rpc_handler, a device method, a method for every device, and
\* the node lookup of on_attributes_update
CommandKinds == {"get", "set", "method", "method_all", "attribute"}

\* task.done()
TaskDoneAlways(f) == TRUE
TaskDone(f) == f.task = "done"

\* what the handler does once its task is done: the RPC reply, or the write of
\* an attribute update whose node was found
FollowUp(f) ==
    CASE f.kind \in {"get", "set", "method"} -> <<"send_rpc_reply">>
      [] f.kind = "method_all" -> <<>>
      [] f.kind = "attribute" -> IF f.error THEN <<>> ELSE <<"__write_value">>

\* the connector thread running its loop or ended, and a command called; hung:
\* the protocol call of its task never returns
InitWait ==
    /\ InitThread
    /\ pc \in {"idle", "done"}
    /\ retry = IdleRetry
    /\ device_nodes = <<>>
    /\ present = {}
    /\ faulty = {}
    /\ enable_subscriptions = TRUE
    /\ \E kind \in CommandKinds, hung \in BOOLEAN, error \in BOOLEAN :
            frame = [op |-> "command", kind |-> kind, pc |-> "called", task |-> "none",
                     hung |-> hung, error |-> error, polls |-> 0, issued |-> <<>>]

\* task = self.__loop.create_task(...)
CommandSchedule ==
    /\ frame.op = "command" /\ frame.pc = "called"
    /\ frame' = [frame EXCEPT !.pc = "waiting", !.task = "pending"]
    /\ UNCHANGED <<conn_vars, time_vars, dev_vars, data_to_send, env_vars, polled,
                   enable_subscriptions>>

\* the loop, while the connector thread runs it, brings the task to its end
TaskCompletes ==
    /\ frame.op = "command" /\ frame.task = "pending"
    /\ IsAlive /\ ~frame.hung
    /\ frame' = [frame EXCEPT !.task = "done"]
    /\ UNCHANGED <<conn_vars, time_vars, dev_vars, data_to_send, env_vars, polled,
                   enable_subscriptions>>

\* "while not task.done(): sleep(.2)" with the task not done
CommandWait ==
    /\ frame.op = "command" /\ frame.pc = "waiting"
    /\ ~TaskDone(frame)
    /\ frame' = [frame EXCEPT !.polls = Min(@ + 1, MaxWaits)]
    /\ UNCHANGED <<conn_vars, time_vars, dev_vars, data_to_send, env_vars, polled,
                   enable_subscriptions>>

\* the task is done: the handler leaves its loop, replies or writes, and returns
CommandProceed ==
    /\ frame.op = "command" /\ frame.pc = "waiting"
    /\ TaskDone(frame)
    /\ frame' = [frame EXCEPT !.pc = "returned", !.issued = FollowUp(frame)]
    /\ UNCHANGED <<conn_vars, time_vars, dev_vars, data_to_send, env_vars, polled,
                   enable_subscriptions>>

\* the connector thread ends: start_client returns and the loop runs no more
LoopStops ==
    /\ frame.op = "command"
    /\ pc = "idle"
    /\ pc' = "done"
    /\ UNCHANGED <<exc, stopped, connected, session, cancel_pending, retry, time_vars,
                   dev_vars, data_to_send, env_vars, polled, enable_subscriptions, frame>>

NextWait ==
    \/ CommandSchedule
    \/ TaskCompletes
    \/ CommandWait
    \/ CommandProceed
    \/ LoopStops

SpecWait ==
    InitWait /\ [][NextWait]_vars /\ WF_vars(CommandSchedule) /\ WF_vars(CommandProceed)

(* ------------------------------------------------------------------ *)
(* The sender thread (__send_data) beside the producers of the         *)
(* delivery queue                                                      *)
(* ------------------------------------------------------------------ *)

\* the records the producers put on data_to_send, numbered in the order of
\* their put
MaxRecords == 4

\* Queue.get(): the oldest item leaves the queue
QueuePeek(queue) == [item |-> Head(queue), rest |-> queue]
QueueGet(queue) == [item |-> Head(queue), rest |-> Tail(queue)]

\* no record is between get() and send_to_storage()
NoRecord == <<>>

\* the producers: a poll cycle (__poll_nodes) and the drain loop
\* (__convert_sub_data)
Producers == {"poll", "push"}

\* the connector running, nothing queued, the counters as __init__ sets them
InitSend ==
    /\ InitThread
    /\ pc = "idle"
    /\ retry = IdleRetry
    /\ device_nodes = <<>>
    /\ present = {}
    /\ faulty = {}
    /\ enable_subscriptions = TRUE
    /\ frame = [op |-> "__send_data", MessagesReceived |-> 0, MessagesSent |-> 0,
                data |-> NoRecord, sink |-> <<>>, put |-> 0]

\* a poll cycle or the drain loop puts the next record
PutRecord ==
    /\ frame.op = "__send_data"
    /\ frame.put < MaxRecords
    /\ \E producer \in Producers :
            data_to_send' = Append(data_to_send, [n |-> frame.put + 1, from |-> producer])
    /\ frame' = [frame EXCEPT !.put = @ + 1]
    /\ UNCHANGED <<conn_vars, time_vars, dev_vars, env_vars, polled, enable_subscriptions>>

\* "while not self.__stopped" with the queue not empty: data = get(), and
\* MessagesReceived is incremented
SendTake ==
    /\ frame.op = "__send_data"
    /\ ~stopped /\ frame.data = NoRecord
    /\ data_to_send # <<>>
    /\ data_to_send' = QueueGet(data_to_send).rest
    /\ frame' = [frame EXCEPT !.data = <<QueueGet(data_to_send).item>>,
                              !.MessagesReceived = @ + 1]
    /\ UNCHANGED <<conn_vars, time_vars, dev_vars, env_vars, polled, enable_subscriptions>>

\* send_to_storage(name, id, data) returns, and MessagesSent is incremented
SendDeliver ==
    /\ frame.op = "__send_data"
    /\ frame.data # NoRecord
    /\ frame' = [frame EXCEPT !.sink = @ \o frame.data,
                              !.MessagesSent = @ + 1,
                              !.data = NoRecord]
    /\ UNCHANGED <<conn_vars, time_vars, dev_vars, data_to_send, env_vars, polled,
                   enable_subscriptions>>

NextSend ==
    \/ PutRecord
    \/ SendTake
    \/ SendDeliver
    \/ Close

SpecSend == InitSend /\ [][NextSend]_vars /\ WF_vars(SendTake) /\ WF_vars(SendDeliver)

(* ------------------------------------------------------------------ *)
(* The connector over several sessions, with the client each           *)
(* Subscription and each monitored item was made on                    *)
(* ------------------------------------------------------------------ *)

\* nothing made on the client of this iteration yet
NewClientState ==
    [op |-> "client", items |-> {}, subscription_made |-> FALSE, scanned |-> FALSE]

\* the connector as open() leaves it, subscriptions enabled
InitSession ==
    /\ InitThread
    /\ pc = "start"
    /\ retry = IdleRetry
    /\ device_nodes = <<>>
    /\ present \in SUBSET Instances
    /\ faulty = {}
    /\ enable_subscriptions = TRUE
    /\ frame = NewClientState

\* "while not self.__stopped" passes: self.__client = asyncua.Client(...), a
\* client on which no Subscription and no monitored item exists
NewClient ==
    /\ frame.op = "client"
    /\ pc = "start" /\ ~stopped
    /\ pc' = "connect"
    /\ exc' = "none"
    /\ retry' = IdleRetry
    /\ session' = FALSE
    /\ polled' = NoRead
    /\ frame' = NewClientState
    /\ UNCHANGED <<stopped, connected, cancel_pending, time_vars, dev_vars,
                   data_to_send, env_vars, enable_subscriptions>>

\* a scan run to its end: the Subscription it creates and the monitored items
\* of the bindings it subscribes are made on the client of this iteration
SessionScan ==
    /\ frame.op = "client"
    /\ pc = "loop" /\ ~stopped /\ next_scan = 0
    /\ next_scan' = ScanPeriod
    /\ LET r == LoadDevices(CreateNewDevices(device_nodes, present), 1, -1,
                            subscription, LoadEnv)
       IN /\ device_nodes' = r.devs
          /\ subscription' = r.sub
          /\ frame' = [frame EXCEPT
                         !.items = (@ \cap SubscribedPlaces(r.devs))
                                   \cup (SubscribedPlaces(r.devs)
                                         \ SubscribedPlaces(device_nodes)),
                         !.subscription_made = @ \/ (subscription = "None" /\ r.sub # "None"),
                         !.scanned = TRUE]
    /\ last_torn' = AbsentNames(DeviceNamesOf(device_nodes), present)
    /\ space_scanned' = IF space_scanned = 0 THEN 1 ELSE 2
    /\ pc' = "poll_check"
    /\ UNCHANGED <<exc, stopped, connected, session, cancel_pending, retry, next_poll,
                   data_to_send, env_vars, polled, enable_subscriptions>>

NextSession ==
    \/ NewClient
    \/ ConnectAttempt
    \/ ConnectGivesUp
    \/ ScanSkip
    \/ SessionScan
    \/ ScanCreateRaises
    \/ PollSkip
    \/ Poll
    \/ PollRaises
    \/ Sleep
    \/ SendData
    \/ ServerChange

SpecSession == InitSession /\ [][NextSession]_vars

(* ------------------------------------------------------------------ *)
(* Properties                                                          *)
(* ------------------------------------------------------------------ *)

\* steps of the acquisition loop, as the properties below name them
ScanRan == pc = "loop" /\ ~stopped /\ next_scan = 0 /\ pc' = "poll_check"
PollRan == pc = "poll_check" /\ next_poll = 0 /\ pc' = "idle"
PollRaised(e) == pc = "poll_check" /\ polled'.reads = 1 /\ exc' = e

\* C1: the outer connect loop never exits while the stop flag is false: the
\* connector thread has ended (start_client returned or an error left it) only
\* when close() has set the stop flag.
C1_LoopExitsOnlyWhenStopped == pc \in {"done", "dead"} => stopped

\* C2: once start_client has handled a connection-level error (connection lost,
\* session closed, timeout, protocol status error) and until a connect attempt
\* succeeds, is_connected() is false.
ConnectionLevelErrors ==
    {"ConnectionError", "BadSessionClosed", "TimeoutError", "BadCommunicationError",
     "UaStatusCodeError"}
C2_DisconnectedAfterError ==
    (pc = "start" /\ exc \in ConnectionLevelErrors) => ~connected

\* C3: retry_with_backoff calls func at most max_retries times; the delay slept
\* after the k-th failure is initial_delay * backoff_factor^(k-1); on the first
\* success it returns the result with no further call; after max_retries
\* failures it returns None.
RECURSIVE Pow(_, _)
Pow(b, e) == IF e = 0 THEN 1 ELSE b * Pow(b, e - 1)
C3_RetryWithBackoff ==
    /\ retry.calls <= retry.max_retries
    /\ Len(retry.sleeps) = retry.attempt
    /\ \A k \in 1..Len(retry.sleeps) :
            retry.sleeps[k] = retry.initial_delay * Pow(retry.backoff_factor, k - 1)
    /\ ~retry.returned => retry.calls = retry.attempt
    /\ (retry.returned /\ retry.result = "value") => retry.calls = retry.attempt + 1
    /\ (retry.returned /\ retry.result = "None") =>
            /\ retry.calls = retry.max_retries
            /\ retry.attempt = retry.max_retries
\* three failures out of three attempts, delays 2, 4, 8, then None
C3_Witness ==
    /\ pc = "retry"
    /\ retry.returned /\ retry.result = "None"
    /\ retry.max_retries = 3 /\ retry.calls = 3
    /\ retry.sleeps = <<2, 4, 8>>

\* C4: no two Device entries of the registry have the same name.
C4_UniqueDeviceNames ==
    \A i, j \in 1..Len(device_nodes) :
        i # j => device_nodes[i].name # device_nodes[j].name

\* C5: a scan of an empty registry in which the template's pattern resolves to k
\* instance paths (and its name expression to k names) leaves exactly k
\* Devices, one per instance path.
C5_OneDevicePerInstance ==
    [][(ScanRan /\ device_nodes = <<>>) =>
        /\ Len(device_nodes') = Len(FindNodes(Mapping[1].deviceNodePattern, present))
        /\ \A i, j \in 1..Len(device_nodes') :
                i # j => device_nodes'[i].path # device_nodes'[j].path]_vars

\* C6: a scan that follows a completed scan over an unchanged address space
\* leaves the registry as it was: no Device added, no name duplicated, no
\* binding reset, the same nodes bound, the same subscription.
C6_ScanIdempotent ==
    [][(ScanRan /\ space_scanned >= 1) =>
        /\ device_nodes' = device_nodes
        /\ subscription' = subscription]_vars
\* the second scan in a row over a server with both rooms, with four devices
\* known and a node subscribed
C6_Witness ==
    /\ space_scanned = 2
    /\ present = Instances
    /\ Len(device_nodes) = 4
    /\ \E i \in 1..Len(device_nodes) : device_nodes[i].values[1].sub_on

\* C7: a known name absent from a scan is torn down once: the next scan does not
\* tear it down again, and a torn-down name is no longer in the registry.
C7_TornDownOnce ==
    [][ScanRan =>
        /\ last_torn' \cap last_torn = {}
        /\ last_torn' \cap DeviceNamesOf(device_nodes') = {}]_vars

\* C8: a binding that was reset (valid = False) is valid again, and with
\* subscriptions enabled subscribed again, after the first scan in which its
\* path resolves and its subscription is accepted.
C8_RevalidatedOnNextBind ==
    [][ScanRan =>
        \A i \in 1..Len(device_nodes) : \A k \in 1..Len(device_nodes[i].values) :
            ( /\ device_nodes[i].values[k].valid = "False"
              /\ Resolves(device_nodes[i].path, present)
              /\ device_nodes[i].path \notin faulty
              /\ device_nodes[i].name \in ScannedDevices(present) )
            => /\ device_nodes'[i].values[k].valid = "True"
               /\ enable_subscriptions => device_nodes'[i].values[k].sub_on]_vars

\* C9: a binding-local error (communication failure) raised by the read of a
\* poll cycle does not abort the cycle: the session stays open, the loop goes on
\* and the values of the other bindings are queued.
C9_PollSurvivesBindingError ==
    [][PollRaised("BadCommunicationError") =>
        /\ pc' = "idle"
        /\ session' = session
        /\ Len(polled'.batch) > 1 => Len(data_to_send') > Len(data_to_send)]_vars

\* C10: a poll cycle reads, in one batched read, exactly the nodes of the
\* bindings that are valid, and makes no read when there is none.
RECURSIVE ValidNodes(_, _)
ValidNodes(devs, i) ==
    IF i > Len(devs) THEN <<>>
    ELSE LET valid == SelectSeq(devs[i].values, LAMBDA node : node.valid = "True")
         IN [k \in 1..Len(valid) |-> <<devs[i].path, valid[k].key>>]
            \o ValidNodes(devs, i + 1)
C10_PollReadsValidBindings ==
    [][PollRan =>
        /\ polled'.batch = ValidNodes(device_nodes, 1)
        /\ polled'.reads = IF ValidNodes(device_nodes, 1) = <<>> THEN 0 ELSE 1]_vars

\* C11: in a poll cycle every device's converter receives the values read for
\* that device's own bound nodes, in binding order, whatever the number of
\* devices and of nodes per device: what the cycle queues is what each device's
\* converter makes of its own nodes' values.
OwnValues(device) == [k \in 1..Len(device.nodes) |-> [of |-> device.nodes[k].node]]
RECURSIVE OwnRecords(_, _)
OwnRecords(devs, i) ==
    IF i > Len(devs) THEN <<>>
    ELSE Convert(devs[i], OwnValues(devs[i])) \o OwnRecords(devs, i + 1)
C11_FanOutByDevice ==
    [][PollRan => data_to_send' = data_to_send \o OwnRecords(device_nodes, 1)]_vars
\* a cycle over three devices with two, no and one bound node
C11_Witness ==
    /\ pc = "idle" /\ polled.reads = 1
    /\ Len(device_nodes) = 3
    /\ Len(device_nodes[1].nodes) = 2
    /\ Len(device_nodes[2].nodes) = 0
    /\ Len(device_nodes[3].nodes) = 1
    /\ Len(data_to_send) = 2
    /\ data_to_send[2].telemetry[1].value = [of |-> <<3, "temperature">>]

\* C12: close() always returns: once called it has set the stop flag and
\* scheduled __disconnect and then __cancel_all_tasks, and it returns after at
\* most the grace period (and one more look), whether the thread ends or not.
C12_CloseReturns ==
    (frame.op = "close" /\ frame.pc = "wait")
    ~> ( /\ frame.op = "close" /\ frame.pc = "returned"
         /\ frame.waited <= GraceTenths + 1
         /\ stopped
         /\ frame.scheduled = <<"__disconnect", "__cancel_all_tasks">> )
\* close() has returned with the thread still alive after the whole grace period
C12_Witness ==
    /\ frame.op = "close" /\ frame.pc = "returned"
    /\ frame.failed /\ IsAlive
    /\ frame.waited = GraceTenths + 1

\* the request whose handling has returned, and what it is
Handled_(op) == frame.op = op /\ frame.pc = "returned"
RpcMethodOf(content) ==
    LET parts == SplitMethod(content.method)
    IN IF Len(parts) = 2 THEN parts[2] ELSE content.method
PseudoRpc(method) == Handled_("rpc") /\ RpcMethodOf(frame.content) = method
RpcPathOf(content) == FullPath(RpcMethodOf(content), content.params)
DeviceRpc ==
    /\ Handled_("rpc")
    /\ frame.content.method \in DeviceMethods
    /\ \E i \in 1..Len(device_nodes) : device_nodes[i].name = frame.content.device
InTable(method) ==
    \E i \in 1..Len(device_nodes) : \E k \in 1..Len(device_nodes[i].rpc_methods) :
        /\ device_nodes[i].name = frame.content.device
        /\ device_nodes[i].rpc_methods[k].method = method

\* C13: a "set" pseudo-RPC addressed to a resolvable path causes exactly one
\* write and exactly one reply, and the reply carries code 200.
C13_SetRepliesOnce200 ==
    ( /\ PseudoRpc("set")
      /\ Len(frame.content.params) >= 3
      /\ RpcPathOf(frame.content) \in ServerNodes )
    => /\ frame.effects.writes = 1
       /\ Len(frame.effects.replies) = 1
       /\ frame.effects.replies[1].code = 200

\* C14: a "get" or "set" pseudo-RPC with a malformed argument count (a set with
\* fewer segments than path plus value, a get without a path) is answered with
\* exactly one reply of code 400, and no read or write is issued.
MalformedCount(content) ==
    \/ RpcMethodOf(content) = "set" /\ Len(content.params) < (IF HasNs(content.params) THEN 3 ELSE 2)
    \/ RpcMethodOf(content) = "get" /\ content.params = <<Seg("", "")>>
C14_MalformedReplies400 ==
    ( /\ PseudoRpc("get") \/ PseudoRpc("set")
      /\ MalformedCount(frame.content) )
    => /\ Len(frame.effects.replies) = 1
       /\ frame.effects.replies[1].code = 400
       /\ frame.effects.reads = 0 /\ frame.effects.writes = 0

\* C15: a "get" pseudo-RPC addressed to an unresolvable path (a request that
\* names a device, or a path from which the connector takes one) yields one
\* reply, which holds an error; no write is issued and nothing is queued for
\* delivery.
C15_GetUnresolvableRepliesError ==
    ( /\ PseudoRpc("get")
      /\ RpcPathOf(frame.content) \notin ServerNodes
      /\ DeviceFromParams(frame.content.params) # "" \/ frame.content.data )
    => /\ Len(frame.effects.replies) = 1
       /\ frame.effects.replies[1].result.error # ""
       /\ frame.effects.writes = 0
       /\ data_to_send = <<>>
\* opcua_get of ns=2;s=Missing has been answered
C15_Witness ==
    /\ PseudoRpc("get")
    /\ frame.content.params = <<Seg("ns", "2"), Seg("s", "Missing")>>
    /\ ~frame.content.data
    /\ Len(frame.effects.replies) = 1
    /\ frame.effects.reads = 1

\* C16: a device-method RPC whose method is in the device's table and whose
\* call succeeds produces exactly one reply, with code 200 and the result, and
\* no 404 reply, whatever else the table holds.
C16_MethodRepliesOnce200 ==
    (DeviceRpc /\ InTable(frame.content.method) /\ frame.call_ok)
    => /\ Len(frame.effects.replies) = 1
       /\ frame.effects.replies[1].code = 200
       /\ frame.effects.replies[1].result = CallResult(TRUE)

\* C17: a device-method RPC whose method is in no entry of the table (of any
\* size, the empty one too) produces exactly one reply, with code 404, and no
\* call on the server.
C17_MissingMethodRepliesOnce404 ==
    (DeviceRpc /\ ~InTable(frame.content.method))
    => /\ Len(frame.effects.replies) = 1
       /\ frame.effects.replies[1].code = 404
       /\ frame.effects.calls = 0

\* C18: a device-method RPC whose call on the server raises is answered with
\* code 500 and the error text, never with code 200.
C18_FailedCallReplies500 ==
    (DeviceRpc /\ InTable(frame.content.method) /\ ~frame.call_ok)
    => \A k \in 1..Len(frame.effects.replies) :
            frame.effects.replies[k].method = frame.content.method
            => /\ frame.effects.replies[k].code = 500
               /\ frame.effects.replies[k].result.error # ""

\* C19: an attribute update for a key with a configured rule issues exactly
\* one write when the rule's node path resolves under the device root, and
\* issues no write when it does not resolve, never raising to the caller.
RuleFor(f, key) ==
    LET rules == f.devices[1].attributes_updates
        k == CHOOSE k \in 1..Len(rules) :
                /\ rules[k].key = key
                /\ \A j \in 1..(k - 1) : rules[j].key # key
    IN rules[k]
HasRule(f, key) ==
    \E k \in 1..Len(f.devices[1].attributes_updates) :
        f.devices[1].attributes_updates[k].key = key
PathResolves(f, value) ==
    \E node \in f.tree :
        /\ Len(node) = Len(RoomPath) + Len(value)
        /\ SubSeq(node, 1, Len(RoomPath)) = RoomPath
        /\ \A k \in 1..Len(value) :
            /\ node[Len(RoomPath) + k].name = value[k].name
            /\ value[k].ns \in {Unqualified, node[Len(RoomPath) + k].ns}
WritesFor(f, key) == SelectSeq(f.effects.writes, LAMBDA w : w.key = key)
C19_AttributeUpdateWrites ==
    (frame.op = "on_attributes_update" /\ frame.pc = "returned"
     /\ frame.content.device = "Room")
    => /\ ~frame.effects.raised
       /\ \A i \in 1..Len(frame.content.data) :
            LET key == frame.content.data[i].key
            IN HasRule(frame, key)
               => Len(WritesFor(frame, key))
                    = IF PathResolves(frame, RuleFor(frame, key).value) THEN 1 ELSE 0

\* C20: for a pattern whose last segment matches k children of the frontier
\* node, find_nodes returns exactly k distinct qualified paths, each ending in a
\* distinct (namespaceIndex, name); a segment matches a child when it is the
\* child's name once "ns:" is stripped, or when it matches the name as a whole
\* regular expression.
RegexLanguage(text) ==
    CASE text = "Room.*" -> {"Room", "Room1", "Room2"}
      [] text = "Room[12]" -> {"Room1", "Room2"}
      [] OTHER -> {text}
MatchesAsSpecified(segment, child) ==
    \/ segment.name = child.name
    \/ segment.ns = Unqualified /\ child.name \in RegexLanguage(segment.name)
MatchedChildren(f) ==
    { k \in 1..Len(GetChildren(f.tree, <<QName(0, "Objects")>>)) :
        MatchesAsSpecified(f.node_pattern[3], GetChildren(f.tree, <<QName(0, "Objects")>>)[k]) }
C20_FindReturnsEveryMatch ==
    (frame.op = "find_nodes" /\ frame.pc = "returned")
    => /\ Len(frame.final) = Cardinality(MatchedChildren(frame))
       /\ \A i, j \in 1..Len(frame.final) :
            i # j => frame.final[i][Len(frame.final[i])] # frame.final[j][Len(frame.final[j])]

\* C21: for every configured scan and poll period the acquisition loop never
\* busy-spins: an iteration either runs an operation whose deadline was reached
\* or suspends for the positive time left to the nearer deadline; no operation
\* starts before its deadline, and an operation that ran has its next deadline
\* one configured period after its start.
C21_LoopNeverSpins ==
    (frame.op = "loop" /\ pc = "loop" /\ frame.completed)
    => /\ frame.iteration.ran # {} \/ frame.iteration.slept > 0
       /\ "scan" \in frame.iteration.ran
            => frame.iteration.scan_set = ConfiguredTicks(frame.scanPeriodInMillis)
       /\ "poll" \in frame.iteration.ran
            => frame.iteration.poll_set = ConfiguredTicks(frame.pollPeriodInMillis)

\* C22: push and poll are independent: a binding with an active subscription
\* is still read by every poll cycle, and while a poll cycle is in progress the
\* drain loop converts and queues a waiting notification without waiting for
\* the cycle, as the cycle ends without waiting for the drain loop.
PollStarts == pc = "poll_check" /\ next_poll = 0 /\ pc' # "poll_check"
DrainTurn ==
    /\ frame.op = "__convert_sub_data" /\ frame.sub_data_to_convert # <<>>
    /\ frame'.sub_data_to_convert = Tail(frame.sub_data_to_convert)
C22_PushPollIndependent ==
    /\ [][PollStarts =>
            \A p \in SubscribedPlaces(device_nodes) :
                \E k \in 1..Len(polled'.batch) : polled'.batch[k] = NodeIdAt(device_nodes, p)]_vars
    /\ [](pc = "polling" => ENABLED PollEnd)
    /\ []((pc = "polling" /\ ~stopped /\ frame.sub_data_to_convert # <<>>)
            => ENABLED ConvertSubData)
    /\ [][DrainTurn =>
            /\ pc' = pc /\ polled' = polled
            /\ (\E p \in SubscribedPlaces(device_nodes) :
                    NodeIdAt(device_nodes, p) = Head(frame.sub_data_to_convert).sub_node)
               => Len(data_to_send') > Len(data_to_send)]_vars
\* a notification that arrived during the read of a poll cycle was converted
\* and queued before the read returned
C22_Witness ==
    /\ pc = "polling" /\ polled.reads = 1
    /\ frame.op = "__convert_sub_data"
    /\ frame.notified_in_poll /\ frame.beside_poll
    /\ frame.sub_data_to_convert = <<>>
    /\ Len(data_to_send) > 0
    /\ \E p \in SubscribedPlaces(device_nodes) :
            \E k \in 1..Len(polled.batch) : polled.batch[k] = NodeIdAt(device_nodes, p)

\* C23: with certificate authentication selected and the certificate or the
\* private key missing, the connect attempt of that iteration is aborted: no
\* connect is issued in it, and the outer loop goes on to a later attempt.
C23_MissingCertAbortsConnect ==
    ( /\ frame.op = "start_client" /\ frame.pc = "connect"
      /\ frame.identity.type = "cert.PEM"
      /\ ~frame.identity.cert \/ ~frame.identity.privateKey )
    => /\ ~frame.client.connect_issued
       /\ pc = "start"

SomeSubscribed(devs) ==
    \E i \in 1..Len(devs) : \E k \in 1..Len(devs[i].values) : devs[i].values[k].sub_on
C25_SubscriptionIffSubscribed ==
    (subscription # "None") <=> SomeSubscribed(device_nodes)

\* C26: the cached qualified path of a binding is invalidated whenever the
\* binding is reset, so that the next scan resolves the configured path again:
\* a scan never meets a reset binding that still holds the path cached before
\* its reset.
C26_ResetDropsCachedPath ==
    [][ScanRan =>
        \A i \in 1..Len(device_nodes) : \A k \in 1..Len(device_nodes[i].values) :
            device_nodes[i].values[k].valid = "False"
            => ~device_nodes[i].values[k].qualified_path]_vars

\* C27: in a scan's binding load an error local to one binding (its path does
\* not resolve, or its subscription is refused) changes that binding only, to
\* invalid and without handle; every other binding comes out of the load as it
\* would with no error anywhere, and the load goes on over all devices.
SubscribesOnLoad(node) == enable_subscriptions /\ node.valid = "unset" /\ ~node.sub_on
ErrsOnLoad(path, node) ==
    \/ ~Resolves(path, present)
    \/ path \in faulty /\ SubscribesOnLoad(node)
C27_BindingErrorIsLocal ==
    [][ScanRan =>
        LET created == CreateNewDevices(device_nodes, present)
        IN /\ Len(device_nodes') = Len(created)
           /\ \A i \in 1..Len(created) : \A k \in 1..Len(created[i].values) :
                LET pre == created[i].values[k]
                    post == device_nodes'[i].values[k]
                IN IF ErrsOnLoad(created[i].path, pre)
                   THEN /\ post.valid = "False"
                        /\ post.subscription = "None"
                        /\ ~post.sub_on
                   ELSE /\ post.valid = IF pre.valid = "unset" THEN "True" ELSE pre.valid
                        /\ post.sub_on = (pre.sub_on \/ SubscribesOnLoad(pre))
                        /\ post.subscription = IF post.sub_on THEN "handle" ELSE "None"]_vars
\* a scan in which the subscription of a device's binding was refused and a
\* device after it in the registry was bound and subscribed
C27_Witness ==
    /\ pc = "poll_check" /\ space_scanned >= 1
    /\ enable_subscriptions
    /\ \E i, j \in 1..Len(device_nodes) :
        /\ i < j
        /\ device_nodes[i].path \in faulty
        /\ device_nodes[i].values[1].valid = "False"
        /\ device_nodes[i].values[1].qualified_path
        /\ device_nodes[j].path \notin faulty
        /\ device_nodes[j].values[1].valid = "True"
        /\ device_nodes[j].values[1].sub_on

NumbersOf(records) == [k \in 1..Len(records) |-> records[k].n]
C29_SenderForwardsInOrder ==
    /\ [](/\ NumbersOf(frame.sink \o frame.data \o data_to_send) = [n \in 1..frame.put |-> n]
          /\ frame.MessagesSent = Len(frame.sink)
          /\ frame.MessagesReceived - frame.MessagesSent \in {0, 1}
          /\ frame.MessagesReceived = Len(frame.sink) + Len(frame.data))
    /\ \A n \in 1..MaxRecords : (frame.put >= n) ~> (stopped \/ Len(frame.sink) >= n)
\* two records forwarded and counted, the third taken and not yet delivered
C29_Witness ==
    /\ frame.op = "__send_data" /\ ~stopped
    /\ NumbersOf(frame.sink) = <<1, 2>> /\ frame.MessagesSent = 2
    /\ NumbersOf(frame.data) = <<3>> /\ frame.MessagesReceived = 3
    /\ NumbersOf(data_to_send) = <<4>>
    /\ frame.sink[1].from = "poll" /\ frame.sink[2].from = "push"

\* C30: after the session is set up again following a connection loss, a scan
\* runs before the first poll cycle of the new session; a scan that the loss
\* cut short is run again after the reconnection, before any poll cycle and
\* without waiting for the scan period to pass: no poll cycle runs while the
\* last scan begun is one that was cut short.
C30_ScanBeforePollAfterReconnect ==
    [][PollRan => space_scanned >= 1]_vars

\* C31: subscription state never outlives its session: after a reconnection
\* has made a new client, every binding marked subscribed holds a monitored
\* item on a Subscription made on that client, at the latest once the new
\* session has run a scan.
C31_SubscribedOnCurrentClient ==
    (frame.op = "client" /\ frame.scanned /\ pc \in {"poll_check", "idle", "loop"})
    => /\ SubscribedPlaces(device_nodes) \subseteq frame.items
       /\ SubscribedPlaces(device_nodes) # {} => frame.subscription_made

\* C32: when close() is called on a connected client, the disconnect it
\* schedules has run to its end by the time the connector thread terminates:
\* a thread that ended after __cancel_all_tasks cancelled it has no session
\* left open.
C32_DisconnectCompletesOnClose ==
    (stopped /\ pc = "done" /\ exc = "CancelledError") => ~session

====
